---------------------------- MODULE Spec2Model ----------------------------
(***************************************************************************)
(* A model of simple-prolog: the typed-token pattern matcher, the sentence *)
(* dispatcher, template instantiation, the pattern store and the query     *)
(* engine.  Positions (word_idx, start_idx, end_idx) are 0-based as in the *)
(* Rust source; TLA+ sequences are 1-based, so words[i + 1] reads the word *)
(* at position i.                                                          *)
(***************************************************************************)
EXTENDS Integers, Sequences, FiniteSets, TLC

VARIABLES
    m_words,     \* matcher: the word list handed to the matcher
    m_tokens,    \* matcher: the token program
    m_op,        \* matcher: the operation last applied ("none" before any)
    m_res,       \* matcher: what that operation returned
    t_captures,  \* template: the capture list handed to apply_template
    t_template,  \* template: the template string
    t_op,        \* template: "none" before apply_template ran, "applied" after
    t_result,    \* template: the lines apply_template returned
    f_words,     \* multi-match: the words of the sentence
    f_patterns,  \* multi-match: the (name, template, tokens) list, priority order
    f_matches,   \* multi-match: matches, the matches recorded so far
    f_used,      \* multi-match: used_positions
    f_pc,        \* multi-match: "loop" while the loop runs, "done" after its break
    db_patterns,          \* Database.patterns, in declaration order
    input_text,           \* PrologApp.input_text, as the words of one sentence
    parsed_output,        \* PrologApp.parsed_output, as a sequence of lines
    sorted_patterns,      \* parse_prolog: the list get_sorted_patterns returned
    interactive_matches,  \* interactive_parser.matches
    q_facts,     \* query engine: facts
    q_fact_map,  \* query engine: fact_map, predicate -> indices into facts
    q_rules,     \* query engine: rules
    q_query,     \* query engine: the goal last passed to query_simple
    q_results,   \* query engine: what that call returned
    q_patterns,  \* query engine: patterns, the named phrases
    q_call,      \* query engine: the query last passed to query
    q_error,     \* query engine: the Err value of that call, NoError for Ok
    q_output,    \* query engine: the output load_facts_from_output was called with,
                 \*   when that call was the latest operation
    q_panicked,  \* query engine: TRUE once a call panicked
    u_query_args,  \* unify: the query arguments
    u_fact_args,   \* unify: the fact arguments
    u_op,          \* unify: "none" before unify ran, "unified" after
    u_res,         \* unify: what it returned
    w_words,       \* Database.words
    w_form_index,  \* Database.form_index, form or lemma -> lemma
    w_form_value,  \* Database.form_value, lemma -> word entry
    w_lookup,      \* the word last passed to get_word_entry and what it returned
    l_logged_entries,  \* Logger.logged_entries, category -> set of data
    l_log,             \* the lines appended to the log file
    e_lock,     \* editor: the RwLock around the Database, readers and writer
    e_ui,       \* editor: where the UI thread stands in a handler
    e_saver,    \* editor: where the save thread stands, and what its saves returned
    e_disk,     \* editor: the content of prolog_database.json and prolog_database.bin
    e_channel,  \* editor: the OperationResult messages sent and not yet received
    e_editor,   \* editor: DatabaseEditor.is_saving and status_message
    s_input,      \* parse_sentences: the input, a sequence of characters
    s_op,         \* parse_sentences: "none" before the call, "parsed" after
    s_sentences   \* parse_sentences: the sentences returned

mvars == <<m_words, m_tokens, m_op, m_res>>
tvars == <<t_captures, t_template, t_op, t_result>>
fvars == <<f_words, f_patterns, f_matches, f_used, f_pc>>
dvars == <<db_patterns, input_text, parsed_output, sorted_patterns, interactive_matches>>
qvars == <<q_facts, q_fact_map, q_rules, q_query, q_results,
           q_patterns, q_call, q_error, q_output, q_panicked>>
uvars == <<u_query_args, u_fact_args, u_op, u_res>>
wvars == <<w_words, w_form_index, w_form_value, w_lookup>>
lvars == <<l_logged_entries, l_log>>
evars == <<e_lock, e_ui, e_saver, e_disk, e_channel, e_editor>>
svars == <<s_input, s_op, s_sentences>>
vars == <<mvars, tvars, fvars, dvars, qvars, uvars, wvars, lvars, evars, svars>>

(***************************************************************************)
(* Each specification below exercises one part of the program; the         *)
(* variables of the other parts rest at these values.                      *)
(***************************************************************************)
NoResult == [ok |-> FALSE, captures |-> <<>>, start_idx |-> 0, end_idx |-> 0]

IdleMatch ==
    /\ m_words = <<>>
    /\ m_tokens = <<>>
    /\ m_op = "idle"
    /\ m_res = NoResult

IdleTemplate ==
    /\ t_captures = <<>>
    /\ t_template = <<>>
    /\ t_op = "idle"
    /\ t_result = <<>>

IdleMulti ==
    /\ f_words = <<>>
    /\ f_patterns = <<>>
    /\ f_matches = <<>>
    /\ f_used = <<>>
    /\ f_pc = "idle"

\* "// Parsed Prolog code will appear here..."
Placeholder == <<[kind |-> "PLACEHOLDER"]>>

IdleDispatch ==
    /\ db_patterns = <<>>
    /\ input_text = <<>>
    /\ parsed_output = Placeholder
    /\ sorted_patterns = <<>>
    /\ interactive_matches = <<>>

NoQuery == [predicate |-> "", args |-> <<>>]

\* No call of query was made.
NoCall == <<>>

\* load_facts_from_output was not the latest operation.
NoOutput == [loaded |-> FALSE, lines |-> <<>>]

\* The call returned Ok.
NoError == <<>>

IdleQuery ==
    /\ q_facts = <<>>
    /\ q_fact_map = <<>>
    /\ q_rules = <<>>
    /\ q_query = NoQuery
    /\ q_results = <<>>
    /\ q_patterns = <<>>
    /\ q_call = NoCall
    /\ q_error = NoError
    /\ q_output = NoOutput
    /\ q_panicked = FALSE

IdleUnify ==
    /\ u_query_args = <<>>
    /\ u_fact_args = <<>>
    /\ u_op = "idle"
    /\ u_res = [ok |-> FALSE, bindings |-> <<>>]

NoLookup == [word |-> "", found |-> FALSE]

IdleWords ==
    /\ w_words = <<>>
    /\ w_form_index = <<>>
    /\ w_form_value = <<>>
    /\ w_lookup = NoLookup

IdleLogger ==
    /\ l_logged_entries = <<>>
    /\ l_log = <<>>

NoLock == [readers |-> {}, writer |-> FALSE]

IdleEditor ==
    /\ e_lock = NoLock
    /\ e_ui = [pc |-> "idle"]
    /\ e_saver = [pc |-> "idle"]
    /\ e_disk = <<>>
    /\ e_channel = <<>>
    /\ e_editor = [is_saving |-> FALSE, status_message |-> ""]

IdleSentences ==
    /\ s_input = <<>>
    /\ s_op = "idle"
    /\ s_sentences = <<>>

NotMatch == <<tvars, fvars, dvars, qvars, uvars, wvars, lvars, evars, svars>>
NotTemplate == <<mvars, fvars, dvars, qvars, uvars, wvars, lvars, evars, svars>>
NotMulti == <<mvars, tvars, dvars, qvars, uvars, wvars, lvars, evars, svars>>
NotDispatch == <<mvars, tvars, fvars, qvars, uvars, wvars, lvars, evars, svars>>
NotQuery == <<mvars, tvars, fvars, dvars, uvars, wvars, lvars, evars, svars>>
NotUnify == <<mvars, tvars, fvars, dvars, qvars, wvars, lvars, evars, svars>>
NotWords == <<mvars, tvars, fvars, dvars, qvars, uvars, lvars, evars, svars>>
NotLogger == <<mvars, tvars, fvars, dvars, qvars, uvars, wvars, evars, svars>>
NotEditor == <<mvars, tvars, fvars, dvars, qvars, uvars, lvars, svars>>
NotSentences == <<mvars, tvars, fvars, dvars, qvars, uvars, wvars, lvars, evars>>

(***************************************************************************)
(* Bounds of the model.                                                    *)
(***************************************************************************)
MaxWords == 3
MaxToks == 3
MaxCaps == 2
MaxTemplateLen == 3
MaxSentence == 4
MaxPrograms == 2
MaxPatterns == 3
MaxInputWords == 3
MaxFacts == 3
MaxRules == 1
MaxPhrases == 1
MaxOutputLines == 2
MaxArgs == 3
MaxWordEntries == 3
MaxLogLines == 3

(***************************************************************************)
(* Sequence helpers.                                                       *)
(***************************************************************************)
SeqsUpTo(S, n) == UNION {[1..k -> S] : k \in 0..n}

\* Vec::pop: removes the last element; on an empty vector it does nothing.
Pop(s) == IF s = <<>> THEN s ELSE SubSeq(s, 1, Len(s) - 1)

\* words[from..to] of the source: positions from .. to-1.
Slice(s, from, to) == SubSeq(s, from + 1, to)

(***************************************************************************)
(* Words and the lexicon.                                                  *)
(***************************************************************************)
\* str::to_lowercase / eq_ignore_ascii_case on the words of the model.
to_lowercase(w) ==
    CASE w = "IS" -> "is"
      [] w = "Cat" -> "cat"
      [] w = "And" -> "and"
      [] OTHER -> w

\* The word entries of the database (lemma, word_type, forms).
LexiconWords ==
    << [lemma |-> "cat", word_type |-> "Noun", forms |-> <<"cats">>],
       [lemma |-> "is",  word_type |-> "Verb", forms |-> <<>>],
       [lemma |-> "fly", word_type |-> "Noun", forms |-> <<"flies">>],
       [lemma |-> "fly", word_type |-> "Verb", forms |-> <<"flies">>],
       [lemma |-> "and", word_type |-> "Conjunction", forms |-> <<>>] >>

\* Database::get_word_entries: the entries sharing the lemma the word (a lemma
\* or a form) resolves to; the empty sequence stands for None.
get_word_entries(word) ==
    LET owners == {i \in 1..Len(LexiconWords) :
                      \/ LexiconWords[i].lemma = word
                      \/ \E k \in 1..Len(LexiconWords[i].forms) :
                            LexiconWords[i].forms[k] = word}
    IN  IF owners = {} THEN <<>>
        ELSE LET lemma == LexiconWords[CHOOSE i \in owners : \A j \in owners : i >= j].lemma
             IN  SelectSeq(LexiconWords, LAMBDA e : e.lemma = lemma)

(***************************************************************************)
(* Pattern tokens (pattern_matcher.rs, enum PatternToken).                 *)
(***************************************************************************)
Literal(l) == [kind |-> "Literal", lit |-> l]
TypeMatch(ts) == [kind |-> "TypeMatch", types |-> ts]
Wildcard == [kind |-> "Wildcard"]
Optional(t) == [kind |-> "Optional", inner |-> t]
Greedy(t) == [kind |-> "Greedy", inner |-> t]

eq_ignore_case(a, b) == to_lowercase(a) = to_lowercase(b)

RECURSIVE matches_token(_, _)
matches_token(word, token) ==
    CASE token.kind = "Literal" -> eq_ignore_case(word, token.lit)
      [] token.kind = "TypeMatch" ->
            LET entries == get_word_entries(word)
            IN  IF entries # <<>>
                THEN \E i \in 1..Len(entries) : entries[i].word_type \in token.types
                ELSE "Noun" \in token.types
      [] token.kind = "Wildcard" -> TRUE
      [] token.kind = "Optional" -> matches_token(word, token.inner)
      [] token.kind = "Greedy" -> matches_token(word, token.inner)

\* join(" ").to_lowercase().replace(' ', "_") of words[from..to].
RECURSIVE formatted_capture(_)
formatted_capture(ws) ==
    IF Len(ws) = 1 THEN to_lowercase(ws[1])
    ELSE to_lowercase(ws[1]) \o "_" \o formatted_capture(Tail(ws))

\* The maximal run of words from word_idx that match inner: the while loop of
\* the Greedy arm; returns end_idx.
RECURSIVE greedy_end(_, _, _)
greedy_end(words, end_idx, inner) ==
    IF end_idx < Len(words) /\ matches_token(words[end_idx + 1], inner)
    THEN greedy_end(words, end_idx + 1, inner)
    ELSE end_idx

AllOptional(pattern_tokens, pattern_idx) ==
    \A k \in (pattern_idx + 1)..Len(pattern_tokens) : pattern_tokens[k].kind = "Optional"

(***************************************************************************)
(* try_match_pattern::backtrack.  The captures vector is threaded through  *)
(* the calls: the result carries the vector as the call leaves it, pushes  *)
(* of failed calls included.                                               *)
(***************************************************************************)
RECURSIVE backtrack(_, _, _, _, _)
RECURSIVE backtrack_greedy(_, _, _, _, _, _)

backtrack(words, word_idx, pattern_tokens, pattern_idx, captures) ==
    IF pattern_idx >= Len(pattern_tokens)
    THEN [ok |-> word_idx = Len(words), captures |-> captures]
    ELSE IF word_idx >= Len(words)
    THEN [ok |-> AllOptional(pattern_tokens, pattern_idx), captures |-> captures]
    ELSE
      LET token == pattern_tokens[pattern_idx + 1]
          word == words[word_idx + 1]
      IN  CASE token.kind = "Optional" ->
                 IF matches_token(word, token.inner)
                 THEN LET isTM == token.inner.kind = "TypeMatch"
                          c1 == IF isTM THEN Append(captures, word) ELSE captures
                          r1 == backtrack(words, word_idx + 1, pattern_tokens,
                                          pattern_idx + 1, c1)
                      IN  IF r1.ok THEN r1
                          ELSE backtrack(words, word_idx, pattern_tokens, pattern_idx + 1,
                                         IF isTM THEN Pop(r1.captures) ELSE r1.captures)
                 ELSE backtrack(words, word_idx, pattern_tokens, pattern_idx + 1, captures)
            [] token.kind = "Wildcard" ->
                 backtrack(words, word_idx + 1, pattern_tokens, pattern_idx + 1, captures)
            [] token.kind = "Greedy" ->
                 LET end_idx == greedy_end(words, word_idx, token.inner)
                 IN  IF end_idx = word_idx
                     THEN [ok |-> FALSE, captures |-> captures]
                     ELSE backtrack_greedy(words, word_idx, pattern_tokens, pattern_idx,
                                           captures, end_idx)
            [] OTHER ->
                 IF matches_token(word, token)
                 THEN backtrack(words, word_idx + 1, pattern_tokens, pattern_idx + 1,
                                IF token.kind = "TypeMatch"
                                THEN Append(captures, word) ELSE captures)
                 ELSE [ok |-> FALSE, captures |-> captures]

\* Mutant: the greedy arm tries the maximal run only and never a shorter one.
backtrack_greedy_longest_only(words, word_idx, pattern_tokens, pattern_idx, captures, try_end) ==
    backtrack(words, try_end, pattern_tokens, pattern_idx + 1,
              Append(captures, formatted_capture(Slice(words, word_idx, try_end))))

\* for try_end in (word_idx + 1..=end_idx).rev(): one iteration and the rest.
backtrack_greedy(words, word_idx, pattern_tokens, pattern_idx, captures, try_end) ==
    IF try_end < word_idx + 1
    THEN [ok |-> FALSE, captures |-> captures]
    ELSE LET r == backtrack(words, try_end, pattern_tokens, pattern_idx + 1,
                            Append(captures, formatted_capture(Slice(words, word_idx, try_end))))
         IN  IF r.ok THEN r
             ELSE backtrack_greedy(words, word_idx, pattern_tokens, pattern_idx,
                                   Pop(r.captures), try_end - 1)

\* try_match_pattern: [ok, captures]; ok = FALSE stands for None.
try_match_pattern(words, pattern_tokens) ==
    LET r == backtrack(words, 0, pattern_tokens, 0, <<>>)
    IN  IF r.ok THEN [ok |-> TRUE, captures |-> r.captures]
        ELSE [ok |-> FALSE, captures |-> <<>>]


\* try_match_pattern_substring: the first start_idx in 0..words.len() (exclusive)
\* whose suffix matches exactly.
RECURSIVE substring_from(_, _, _)
substring_from(words, start_idx, pattern_tokens) ==
    IF start_idx >= Len(words)
    THEN [ok |-> FALSE, captures |-> <<>>, start_idx |-> 0]
    ELSE LET r == try_match_pattern(Slice(words, start_idx, Len(words)), pattern_tokens)
         IN  IF r.ok THEN [ok |-> TRUE, captures |-> r.captures, start_idx |-> start_idx]
             ELSE substring_from(words, start_idx + 1, pattern_tokens)

\* Mutant: the scan starts at word 1 and never tries the whole list.
try_match_pattern_substring_from_one(words, pattern_tokens) ==
    substring_from(words, 1, pattern_tokens)

try_match_pattern_substring(words, pattern_tokens) ==
    substring_from(words, 0, pattern_tokens)

(***************************************************************************)
(* try_match_at_position::backtrack_with_end: as backtrack, but an         *)
(* exhausted program succeeds at any word position and the position is     *)
(* returned.                                                               *)
(***************************************************************************)
RECURSIVE backtrack_with_end(_, _, _, _, _)
RECURSIVE backtrack_with_end_greedy(_, _, _, _, _, _)

backtrack_with_end(words, word_idx, pattern_tokens, pattern_idx, captures) ==
    IF pattern_idx >= Len(pattern_tokens)
    THEN [ok |-> TRUE, end |-> word_idx, captures |-> captures]
    ELSE IF word_idx >= Len(words)
    THEN [ok |-> AllOptional(pattern_tokens, pattern_idx), end |-> word_idx,
          captures |-> captures]
    ELSE
      LET token == pattern_tokens[pattern_idx + 1]
          word == words[word_idx + 1]
      IN  CASE token.kind = "Optional" ->
                 IF matches_token(word, token.inner)
                 THEN LET isTM == token.inner.kind = "TypeMatch"
                          c1 == IF isTM THEN Append(captures, word) ELSE captures
                          r1 == backtrack_with_end(words, word_idx + 1, pattern_tokens,
                                                   pattern_idx + 1, c1)
                      IN  IF r1.ok THEN r1
                          ELSE backtrack_with_end(words, word_idx, pattern_tokens,
                                                  pattern_idx + 1,
                                                  IF isTM THEN Pop(r1.captures)
                                                  ELSE r1.captures)
                 ELSE backtrack_with_end(words, word_idx, pattern_tokens, pattern_idx + 1,
                                         captures)
            [] token.kind = "Wildcard" ->
                 backtrack_with_end(words, word_idx + 1, pattern_tokens, pattern_idx + 1,
                                    captures)
            [] token.kind = "Greedy" ->
                 LET end_idx == greedy_end(words, word_idx, token.inner)
                 IN  IF end_idx = word_idx
                     THEN [ok |-> FALSE, end |-> word_idx, captures |-> captures]
                     ELSE backtrack_with_end_greedy(words, word_idx, pattern_tokens,
                                                    pattern_idx, captures, end_idx)
            [] OTHER ->
                 IF matches_token(word, token)
                 THEN backtrack_with_end(words, word_idx + 1, pattern_tokens, pattern_idx + 1,
                                         IF token.kind = "TypeMatch"
                                         THEN Append(captures, word) ELSE captures)
                 ELSE [ok |-> FALSE, end |-> word_idx, captures |-> captures]

\* Mutant: the greedy arm tries the maximal run only and never a shorter one.
backtrack_with_end_longest_only(words, word_idx, pattern_tokens, pattern_idx, captures, try_end) ==
    backtrack_with_end(words, try_end, pattern_tokens, pattern_idx + 1,
                       Append(captures, formatted_capture(Slice(words, word_idx, try_end))))

\* for try_end in (word_idx + 1..=end_idx).rev(): one iteration and the rest.
backtrack_with_end_greedy(words, word_idx, pattern_tokens, pattern_idx, captures, try_end) ==
    IF try_end < word_idx + 1
    THEN [ok |-> FALSE, end |-> word_idx, captures |-> captures]
    ELSE LET r == backtrack_with_end(words, try_end, pattern_tokens, pattern_idx + 1,
                     Append(captures, formatted_capture(Slice(words, word_idx, try_end))))
         IN  IF r.ok THEN r
             ELSE backtrack_with_end_greedy(words, word_idx, pattern_tokens, pattern_idx,
                                            Pop(r.captures), try_end - 1)

\* try_match_at_position without the name and template it copies into the
\* PatternMatch: [ok, captures, start_idx, end_idx]; ok = FALSE stands for None.
try_match_at_position(words, start_idx, pattern_tokens) ==
    LET r == backtrack_with_end(Slice(words, start_idx, Len(words)), 0, pattern_tokens, 0, <<>>)
    IN  IF r.ok
        THEN [ok |-> TRUE, captures |-> r.captures, start_idx |-> start_idx,
              end_idx |-> start_idx + r.end]
        ELSE [ok |-> FALSE, captures |-> <<>>, start_idx |-> start_idx, end_idx |-> start_idx]

(***************************************************************************)
(* Template instantiation (pattern_matcher.rs, apply_template).  A string  *)
(* is a sequence of atoms: the characters "$", "0".."9", " " and "\n" are  *)
(* atoms of their own, any other atom is a run of characters holding none  *)
(* of these.                                                               *)
(***************************************************************************)
DigitAtoms == <<"0", "1", "2", "3", "4", "5", "6", "7", "8", "9">>

\* format!("{}", n) for n >= 0.
RECURSIVE decimal(_)
decimal(n) ==
    IF n < 10 THEN <<DigitAtoms[n + 1]>>
    ELSE decimal(n \div 10) \o <<DigitAtoms[(n % 10) + 1]>>

\* str::replace(pat, to): every non-overlapping occurrence of pat, left to
\* right; the text put in is not scanned again.
RECURSIVE str_replace(_, _, _)
str_replace(str, pat, to) ==
    IF Len(str) < Len(pat) THEN str
    ELSE IF SubSeq(str, 1, Len(pat)) = pat
    THEN to \o str_replace(SubSeq(str, Len(pat) + 1, Len(str)), pat, to)
    ELSE <<Head(str)>> \o str_replace(Tail(str), pat, to)

\* str::lines: split at "\n"; a trailing newline ends the last line.
RECURSIVE str_lines(_, _)
str_lines(str, current) ==
    IF str = <<>> THEN (IF current = <<>> THEN <<>> ELSE <<current>>)
    ELSE IF Head(str) = "\n" THEN <<current>> \o str_lines(Tail(str), <<>>)
    ELSE str_lines(Tail(str), Append(current, Head(str)))

\* line.trim().is_empty()
is_blank(line) == \A i \in 1..Len(line) : line[i] = " "

\* for (i, word) in captures.iter().enumerate(): the replacements of $1, $2,
\* ... applied one after the other to the running result.
RECURSIVE replace_placeholders(_, _, _)
replace_placeholders(result, captures, i) ==
    IF i >= Len(captures) THEN result
    ELSE replace_placeholders(str_replace(result, <<"$">> \o decimal(i + 1), captures[i + 1]),
                              captures, i + 1)

apply_template(captures, template) ==
    LET templates == SelectSeq(str_lines(template, <<>>), LAMBDA line : ~is_blank(line))
        results == [k \in 1..Len(templates) |-> replace_placeholders(templates[k], captures, 0)]
    IN  IF results = <<>> THEN <<template>> ELSE results

TemplateAtoms == {"$", "1", "0", "2", "x", "\n"}
CaptureValues == {<<"a">>, <<"b">>, <<"$", "2">>}
TenCaptures == <<<<"ant">>, <<"bee">>, <<"cow">>, <<"dog">>, <<"eel">>,
                 <<"fox">>, <<"gnu">>, <<"hen">>, <<"jay">>, <<"kit">>>>

InitTemplate ==
    /\ IdleMatch /\ IdleMulti /\ IdleDispatch /\ IdleQuery
    /\ IdleUnify /\ IdleWords /\ IdleLogger /\ IdleEditor /\ IdleSentences
    /\ t_captures \in SeqsUpTo(CaptureValues, MaxCaps) \cup {TenCaptures}
    /\ t_template \in SeqsUpTo(TemplateAtoms, MaxTemplateLen)
    /\ t_op = "none"
    /\ t_result = <<>>

ApplyTemplate ==
    /\ t_op = "none"
    /\ t_op' = "applied"
    /\ t_result' = apply_template(t_captures, t_template)
    /\ UNCHANGED <<t_captures, t_template, NotTemplate>>

NextTemplate == ApplyTemplate

SpecTemplate == InitTemplate /\ [][NextTemplate]_vars

(***************************************************************************)
(* The matcher applied to bounded inputs.                                  *)
(***************************************************************************)
MatchWords == {"cat", "is", "fly", "IS"}

MatchTokens ==
    { Literal("is"), TypeMatch({"Noun"}), TypeMatch({"Verb"}), Wildcard,
      Optional(TypeMatch({"Noun"})), Optional(Literal("is")),
      Greedy(TypeMatch({"Noun"})), Optional(Greedy(TypeMatch({"Verb"}))) }

InitMatch ==
    /\ IdleTemplate /\ IdleMulti /\ IdleDispatch /\ IdleQuery
    /\ IdleUnify /\ IdleWords /\ IdleLogger /\ IdleEditor /\ IdleSentences
    /\ m_words \in SeqsUpTo(MatchWords, MaxWords)
    /\ m_tokens \in SeqsUpTo(MatchTokens, MaxToks)
    /\ m_op = "none"
    /\ m_res = NoResult

MatchExact ==
    /\ m_op = "none"
    /\ m_op' = "exact"
    /\ LET r == try_match_pattern(m_words, m_tokens)
       IN  m_res' = [ok |-> r.ok, captures |-> r.captures, start_idx |-> 0,
                     end_idx |-> IF r.ok THEN Len(m_words) ELSE 0]
    /\ UNCHANGED <<m_words, m_tokens, NotMatch>>

MatchSubstring ==
    /\ m_op = "none"
    /\ m_op' = "substring"
    /\ LET r == try_match_pattern_substring(m_words, m_tokens)
       IN  m_res' = [ok |-> r.ok, captures |-> r.captures, start_idx |-> r.start_idx,
                     end_idx |-> IF r.ok THEN Len(m_words) ELSE 0]
    /\ UNCHANGED <<m_words, m_tokens, NotMatch>>

MatchAt ==
    /\ m_op = "none"
    /\ m_op' = "at"
    /\ \E start_idx \in 0..(Len(m_words) - 1) :
          m_res' = try_match_at_position(m_words, start_idx, m_tokens)
    /\ UNCHANGED <<m_words, m_tokens, NotMatch>>

NextMatch == MatchExact \/ MatchSubstring \/ MatchAt

SpecMatch == InitMatch /\ [][NextMatch]_vars


(***************************************************************************)
(* find_all_pattern_matches (pattern_matcher.rs): the multi-match loop.    *)
(***************************************************************************)
is_conjunction(word) == to_lowercase(word) \in {"and", "or", "nor", "but", "yet", ","}

NoMatch ==
    [ok |-> FALSE, pattern_name |-> "", template |-> <<>>, captures |-> <<>>,
     start_idx |-> 0, end_idx |-> 0]

\* best_len: the span length of best_match, 0 when there is none.
best_len(best) == IF best.ok THEN best.end_idx - best.start_idx ELSE 0

\* Mutant: a later candidate of equal length replaces the best one.
better_match_last_wins(pattern, used_positions, best, r) ==
    IF /\ r.ok
       /\ ~(\E i \in r.start_idx..(r.end_idx - 1) : used_positions[i + 1])
       /\ r.end_idx > r.start_idx
       /\ (r.end_idx - r.start_idx) >= best_len(best)
    THEN [ok |-> TRUE, pattern_name |-> pattern.name, template |-> pattern.template,
          captures |-> r.captures, start_idx |-> r.start_idx, end_idx |-> r.end_idx]
    ELSE best

\* Mutant: the span of a candidate is not tested against used_positions.
better_match_no_overlap_test(pattern, used_positions, best, r) ==
    IF r.ok /\ (r.end_idx - r.start_idx) > best_len(best)
    THEN [ok |-> TRUE, pattern_name |-> pattern.name, template |-> pattern.template,
          captures |-> r.captures, start_idx |-> r.start_idx, end_idx |-> r.end_idx]
    ELSE best

\* Mutant: a candidate replaces best_match when it is at least as long, a
\* span of no word included.
better_match_or_equal(pattern, used_positions, best, r) ==
    IF /\ r.ok
       /\ ~(\E i \in r.start_idx..(r.end_idx - 1) : used_positions[i + 1])
       /\ (r.end_idx - r.start_idx) >= best_len(best)
    THEN [ok |-> TRUE, pattern_name |-> pattern.name, template |-> pattern.template,
          captures |-> r.captures, start_idx |-> r.start_idx, end_idx |-> r.end_idx]
    ELSE best

\* The body of the inner for loop once try_match_at_position has returned r:
\* the candidate replaces best_match when it matched, its span holds no used
\* position and it is strictly longer.
better_match(pattern, used_positions, best, r) ==
    IF /\ r.ok
       /\ ~(\E i \in r.start_idx..(r.end_idx - 1) : used_positions[i + 1])
       /\ (r.end_idx - r.start_idx) > best_len(best)
    THEN [ok |-> TRUE, pattern_name |-> pattern.name, template |-> pattern.template,
          captures |-> r.captures, start_idx |-> r.start_idx, end_idx |-> r.end_idx]
    ELSE best

\* The two nested for loops of one round, from pattern p and start index s
\* on: the best match after the last candidate.
RECURSIVE scan_candidates(_, _, _, _, _, _)
scan_candidates(words, patterns, used_positions, p, s, best) ==
    IF p >= Len(patterns) THEN best
    ELSE IF s >= Len(words)
    THEN scan_candidates(words, patterns, used_positions, p + 1, 0, best)
    ELSE IF used_positions[s + 1] \/ is_conjunction(words[s + 1])
    THEN scan_candidates(words, patterns, used_positions, p, s + 1, best)
    ELSE CHOOSE found \in
            {scan_candidates(words, patterns, used_positions, p, s + 1, next_best) :
                next_best \in
                   {better_match(patterns[p + 1], used_positions, best, r) :
                       r \in {try_match_at_position(words, s, patterns[p + 1].tokens)}}} :
            TRUE

\* Mutant: the scan of the first pattern starts at the second word.
find_round_from_second_word(words, patterns, used_positions) ==
    scan_candidates(words, patterns, used_positions, 0, 1, NoMatch)

\* One iteration of the loop up to "if let Some(m) = best_match".
find_round(words, patterns, used_positions) ==
    scan_candidates(words, patterns, used_positions, 0, 0, NoMatch)

\* for i in m.start_idx..m.end_idx { used_positions[i] = true; }
mark_used(used_positions, m) ==
    [i \in 1..Len(used_positions) |->
        used_positions[i] \/ (m.start_idx < i /\ i <= m.end_idx)]

\* The whole loop, run to its break: the matches in the order recorded.
RECURSIVE find_loop(_, _, _, _)
find_loop(words, patterns, matches, used_positions) ==
    LET best == find_round(words, patterns, used_positions)
    IN  IF best.ok
        THEN find_loop(words, patterns, Append(matches, best), mark_used(used_positions, best))
        ELSE matches

find_all_pattern_matches(words, patterns) ==
    find_loop(words, patterns, <<>>, [i \in 1..Len(words) |-> FALSE])

\* The sentences and pattern lists the loop is run on.  parse_prolog calls
\* find_all_pattern_matches only when no word is a conjunction.
MultiWords == {"cat", "is", "fly"}

MultiTemplate == <<"f(", "$", "1", ")">>

MultiPrograms ==
    { <<TypeMatch({"Noun"}), Literal("is"), TypeMatch({"Noun"})>>,
      <<TypeMatch({"Noun"}), TypeMatch({"Verb"})>>,
      <<Greedy(TypeMatch({"Noun"}))>>,
      <<Optional(TypeMatch({"Noun"})), TypeMatch({"Verb"})>>,
      <<Wildcard, Wildcard>>,
      <<Optional(Literal("is"))>>,
      <<>> }

PatternNames == <<"P1", "P2", "P3", "P4">>

InitMulti ==
    /\ IdleMatch /\ IdleTemplate /\ IdleDispatch /\ IdleQuery
    /\ IdleUnify /\ IdleWords /\ IdleLogger /\ IdleEditor /\ IdleSentences
    /\ f_words \in SeqsUpTo(MultiWords, MaxSentence)
    /\ \E programs \in SeqsUpTo(MultiPrograms, MaxPrograms) :
          f_patterns = [k \in 1..Len(programs) |->
                          [name |-> PatternNames[k], template |-> MultiTemplate,
                           tokens |-> programs[k]]]
    /\ f_matches = <<>>
    /\ f_used = [i \in 1..Len(f_words) |-> FALSE]
    /\ f_pc = "loop"

\* One iteration that records a match.
RoundRecord ==
    /\ f_pc = "loop"
    /\ \E best \in {find_round(f_words, f_patterns, f_used)} :
           /\ best.ok
           /\ f_used' = mark_used(f_used, best)
           /\ f_matches' = Append(f_matches, best)
    /\ UNCHANGED <<f_words, f_patterns, f_pc, NotMulti>>

\* The iteration that finds no match and breaks.
RoundBreak ==
    /\ f_pc = "loop"
    /\ ~find_round(f_words, f_patterns, f_used).ok
    /\ f_pc' = "done"
    /\ UNCHANGED <<f_words, f_patterns, f_matches, f_used, NotMulti>>

NextMulti == RoundRecord \/ RoundBreak

SpecMulti == InitMulti /\ [][NextMulti]_vars

\* The loop is sequential code of one thread: an iteration that can be taken
\* is taken.
SpecMultiFair == SpecMulti /\ WF_vars(NextMulti)

(***************************************************************************)
(* parse_pattern (pattern_matcher.rs).  A pattern source is the sequence   *)
(* of its whitespace-separated elements; an element is a sequence of       *)
(* atoms, where "*", "+", "<", ">", "[", "]" and "|" are atoms of their    *)
(* own and any other atom is a run of characters holding none of these.    *)
(***************************************************************************)
Last(s) == s[Len(s)]

\* &base_element[1..base_element.len() - 1]
Interior(s) == SubSeq(s, 2, Len(s) - 1)

\* The atoms of a string put together again.
RECURSIVE concat(_)
concat(atoms) == IF atoms = <<>> THEN "" ELSE Head(atoms) \o concat(Tail(atoms))

\* The names the filter_map of parse_pattern maps to a WordType.
WordTypeNames ==
    {"Noun", "Verb", "Adjective", "Adverb", "Pronoun", "Preposition",
     "Conjunction", "Interjection", "Determiner"}

\* type_str.split('|')
RECURSIVE split_bar(_, _)
split_bar(str, current) ==
    IF str = <<>> THEN <<current>>
    ELSE IF Head(str) = "|" THEN <<current>> \o split_bar(Tail(str), <<>>)
    ELSE split_bar(Tail(str), Append(current, Head(str)))

\* The types of "<...>": the segments that name a WordType, the others dropped.
parse_types(segments) ==
    {segments[k][1] : k \in {j \in 1..Len(segments) :
                                Len(segments[j]) = 1 /\ segments[j][1] \in WordTypeNames}}

\* Some(token) is <<token>>, None is <<>>.
type_token(types) == IF types # {} THEN <<TypeMatch(types)>> ELSE <<>>

optional_token(inner_tokens) ==
    IF inner_tokens # <<>> THEN <<Optional(inner_tokens[1])>> ELSE <<>>

greedy_token(base_token, is_greedy) ==
    IF base_token # <<>> /\ is_greedy THEN <<Greedy(base_token[1])>> ELSE base_token

is_greedy_element(element) == Last(element) = "+" /\ Len(element) > 1

RECURSIVE parse_element(_)
RECURSIVE parse_base(_)

\* base_token of one element without its greedy mark.
parse_base(base_element) ==
    IF base_element = <<"*">> THEN <<Wildcard>>
    ELSE IF Head(base_element) = "<" /\ Last(base_element) = ">"
    THEN type_token(parse_types(split_bar(Interior(base_element), <<>>)))
    ELSE IF Head(base_element) = "[" /\ Last(base_element) = "]"
    THEN optional_token(IF Interior(base_element) = <<>> THEN <<>>
                        ELSE parse_element(Interior(base_element)))
    ELSE <<Literal(concat(base_element))>>

\* The body of the for loop of parse_pattern: the tokens one element pushes.
parse_element(element) ==
    greedy_token(parse_base(IF is_greedy_element(element)
                            THEN SubSeq(element, 1, Len(element) - 1) ELSE element),
                 is_greedy_element(element))

RECURSIVE parse_pattern(_)
parse_pattern(pattern) ==
    IF pattern = <<>> THEN <<>>
    ELSE parse_element(Head(pattern)) \o parse_pattern(Tail(pattern))

(***************************************************************************)
(* The pattern store (database/sentences.rs, database_editor.rs).          *)
(***************************************************************************)
PrologPattern(name, pattern, template, priority, enabled) ==
    [name |-> name, pattern |-> pattern, template |-> template,
     priority |-> priority, enabled |-> enabled]

\* Mutant: a pattern is put before the patterns of its own priority.
insert_by_priority_before_equals(sorted, p) ==
    LET before == SelectSeq(sorted, LAMBDA q : q.priority > p.priority)
        after == SelectSeq(sorted, LAMBDA q : q.priority <= p.priority)
    IN  before \o <<p>> \o after

\* One step of the stable sort_by(|a, b| b.priority.cmp(&a.priority)): p goes
\* behind every pattern of a priority at least its own.
insert_by_priority(sorted, p) ==
    LET before == SelectSeq(sorted, LAMBDA q : q.priority >= p.priority)
        after == SelectSeq(sorted, LAMBDA q : q.priority < p.priority)
    IN  before \o <<p>> \o after

RECURSIVE sort_by_priority(_, _)
sort_by_priority(patterns, sorted) ==
    IF patterns = <<>> THEN sorted
    ELSE sort_by_priority(Tail(patterns), insert_by_priority(sorted, Head(patterns)))

get_sorted_patterns(patterns) ==
    sort_by_priority(SelectSeq(patterns, LAMBDA p : p.enabled), <<>>)

(***************************************************************************)
(* What the pattern editor can put into the store.                         *)
(***************************************************************************)
PatternCatalog ==
    << [name |-> "thing",
        pattern |-> << <<"<", "Noun", ">">> >>,
        template |-> <<"thing(", "$", "1", ")">>],
       [name |-> "does",
        pattern |-> << <<"<", "Noun", ">">>, <<"[", "<", "Verb", "|", "Adjective", ">", "]">> >>,
        template |-> <<"does(", "$", "1", ",", "$", "2", ")">>],
       [name |-> "pair",
        pattern |-> << <<"<", "Noun", ">">>, <<"*">>, <<"<", "Noun", ">", "+">> >>,
        template |-> <<"pair(", "$", "1", ",", "$", "2", ")">>] >>

\* new_pattern_priority.parse().unwrap_or(50)
DefaultPriority == 50

Priorities == {DefaultPriority, 90}

(***************************************************************************)
(* parse_prolog (parser/parser.rs).  The returned text is modelled as the  *)
(* sequence of its lines; every call returns with a record of the lines    *)
(* and of the SentenceMatch values it pushed to interactive_parser.matches *)
(* (words, pattern_name and template; the highlights are left out).        *)
(***************************************************************************)
\* The words of a sentence with a single space between them.
RECURSIVE join_words(_)
join_words(words) ==
    IF words = <<>> THEN <<>>
    ELSE IF Len(words) = 1 THEN <<words[1]>>
    ELSE <<words[1], " ">> \o join_words(Tail(words))

\* "// FROM: {}"
FromLine(words) == [kind |-> "FROM", sentence |-> join_words(words)]

\* "// PATTERN: {}" and what follows the name on the line.
PatternLine(name, note) == [kind |-> "PATTERN", name |-> name, note |-> note]

\* "// WARNING: No pattern matched"
WarningLine == [kind |-> "WARNING"]

TextLine(text) == [kind |-> "TEXT", text |-> text]

\* The captures as strings of atoms, each word an atom.
capture_strings(captures) == [k \in 1..Len(captures) |-> <<captures[k]>>]

lines_of(texts) == [k \in 1..Len(texts) |-> TextLine(texts[k])]

\* outputs.extend(apply_template(&captures, &template))
template_lines(captures, template) ==
    lines_of(apply_template(capture_strings(captures), template))

SentenceMatch(words, pattern_name, template) ==
    [words |-> words, pattern_name |-> pattern_name, template |-> template]

\* A branch that returned (done) with its lines and pushes, or fell through.
Returned(output, matches) == [done |-> TRUE, output |-> output, matches |-> matches]

FellThrough == [done |-> FALSE, output |-> <<>>, matches |-> <<>>]

\* The branches in the order of the code: the first that returns wins.
or_else(res, rest) == IF res.done THEN res ELSE rest

has_conjunctions(words) == \E i \in 1..Len(words) : is_conjunction(words[i])

patterns_with_tokens(sorted) ==
    [k \in 1..Len(sorted) |->
        [name |-> sorted[k].name, template |-> sorted[k].template,
         tokens |-> parse_pattern(sorted[k].pattern)]]

\* The multi-match branch: "// PATTERN: {} (words {}-{})" and the lines of
\* the template for every match.
multi_output_of(m) ==
    <<PatternLine(m.pattern_name,
                  <<"(words ">> \o decimal(m.start_idx) \o <<"-">>
                     \o decimal(m.end_idx) \o <<")">>)>>
       \o template_lines(m.captures, m.template)

RECURSIVE multi_outputs(_)
multi_outputs(matches) ==
    IF matches = <<>> THEN <<>>
    ELSE multi_output_of(Head(matches)) \o multi_outputs(Tail(matches))

multi_interactive(words, matches) ==
    [k \in 1..Len(matches) |->
        SentenceMatch(Slice(words, matches[k].start_idx, matches[k].end_idx),
                      matches[k].pattern_name, matches[k].template)]

multi_branch(words, matches) ==
    IF matches # <<>>
    THEN Returned(<<FromLine(words)>> \o multi_outputs(matches),
                  multi_interactive(words, matches))
    ELSE FellThrough

\* The indices of the conjunction words, in order.
conj_indices(words) ==
    SelectSeq([i \in 1..Len(words) |-> i - 1], LAMBDA i : is_conjunction(words[i + 1]))

has_noun(entries) ==
    entries = <<>> \/ \E k \in 1..Len(entries) : entries[k].word_type = "Noun"

\* subject_end_idx: one past the first word that is unknown or has a Noun
\* entry, 0 when there is none.
RECURSIVE subject_end_idx(_, _)
subject_end_idx(words, i) ==
    IF i >= Len(words) THEN 0
    ELSE IF has_noun(get_word_entries(words[i + 1])) THEN i + 1
    ELSE subject_end_idx(words, i + 1)

NoPart == [ok |-> FALSE, captures |-> <<>>, name |-> "", template |-> <<>>]

\* if part.is_none() { if let Some(captures) = try_match_pattern(...) { ... } }
try_part(part, pattern, r) ==
    IF ~part.ok /\ r.ok
    THEN [ok |-> TRUE, captures |-> r.captures, name |-> pattern.name,
          template |-> pattern.template]
    ELSE part

\* for pattern in sorted_patterns.iter() of the subject-sharing expansion.
RECURSIVE subject_scan(_, _, _, _, _, _)
subject_scan(sorted, k, first_sentence, second_sentence, first, second) ==
    IF k > Len(sorted) \/ (first.ok /\ second.ok) THEN <<first, second>>
    ELSE subject_scan(sorted, k + 1, first_sentence, second_sentence,
            try_part(first, sorted[k],
                     try_match_pattern(first_sentence, parse_pattern(sorted[k].pattern))),
            try_part(second, sorted[k],
                     try_match_pattern(second_sentence, parse_pattern(sorted[k].pattern))))

subject_output(words, first_sentence, second_sentence, parts) ==
    IF parts[1].ok /\ parts[2].ok
    THEN Returned(
            <<FromLine(words), PatternLine(parts[1].name, <<"(conjunction expansion)">>)>>
               \o template_lines(parts[1].captures, parts[1].template)
               \o <<PatternLine(parts[2].name, <<>>)>>
               \o template_lines(parts[2].captures, parts[2].template),
            <<SentenceMatch(first_sentence, parts[1].name, parts[1].template),
              SentenceMatch(second_sentence, parts[2].name, parts[2].template)>>)
    ELSE FellThrough

subject_sharing(words, sorted, conj_idx, subject_end) ==
    IF subject_end > 0 /\ subject_end <= conj_idx
    THEN subject_output(words, Slice(words, 0, conj_idx),
            Slice(words, 0, subject_end) \o Slice(words, conj_idx + 1, Len(words)),
            subject_scan(sorted, 1, Slice(words, 0, conj_idx),
               Slice(words, 0, subject_end) \o Slice(words, conj_idx + 1, Len(words)),
               NoPart, NoPart))
    ELSE FellThrough

\* The body of the suffix-split loop for one split point and one pattern.
split_output(words, first_sentence, second_sentence, pattern, r1, r2) ==
    IF r1.ok /\ r2.ok
    THEN Returned(
            <<FromLine(words), PatternLine(pattern.name, <<"(with conjunction expansion)">>)>>
               \o template_lines(r1.captures, pattern.template)
               \o template_lines(r2.captures, pattern.template),
            <<SentenceMatch(first_sentence, pattern.name, pattern.template),
              SentenceMatch(second_sentence, pattern.name, pattern.template)>>)
    ELSE FellThrough

split_try(words, first_sentence, second_sentence, pattern) ==
    split_output(words, first_sentence, second_sentence, pattern,
                 try_match_pattern(first_sentence, parse_pattern(pattern.pattern)),
                 try_match_pattern(second_sentence, parse_pattern(pattern.pattern)))

\* for split_point in (0..=before_conj.len()).rev(), for pattern in sorted.
RECURSIVE split_scan(_, _, _, _, _)
split_scan(words, sorted, conj_idx, split_point, k) ==
    IF split_point < 0 THEN FellThrough
    ELSE IF k > Len(sorted) THEN split_scan(words, sorted, conj_idx, split_point - 1, 1)
    ELSE or_else(split_try(words, Slice(words, 0, conj_idx),
                    Slice(words, 0, split_point) \o Slice(words, conj_idx + 1, Len(words)),
                    sorted[k]),
                 split_scan(words, sorted, conj_idx, split_point, k + 1))

\* The body of the loop over the conjunction positions.
conj_try(words, sorted, conj_idx) ==
    IF conj_idx = 0 \/ conj_idx + 1 >= Len(words) THEN FellThrough
    ELSE or_else(subject_sharing(words, sorted, conj_idx, subject_end_idx(words, 0)),
                 split_scan(words, sorted, conj_idx, conj_idx, 1))

RECURSIVE conj_loop(_, _, _)
conj_loop(words, sorted, idxs) ==
    IF idxs = <<>> THEN FellThrough
    ELSE or_else(conj_try(words, sorted, Head(idxs)),
                 conj_loop(words, sorted, Tail(idxs)))

\* The single-pattern fallback: the exact match of the whole sentence ...
exact_output(words, pattern, r) ==
    IF r.ok
    THEN Returned(<<FromLine(words), PatternLine(pattern.name, <<>>)>>
                     \o template_lines(r.captures, pattern.template),
                  <<SentenceMatch(words, pattern.name, pattern.template)>>)
    ELSE FellThrough

\* ... and the substring match.
substring_output(words, pattern, r) ==
    IF r.ok
    THEN Returned(<<FromLine(words),
                    PatternLine(pattern.name,
                       <<"(substring match at word ">> \o decimal(r.start_idx) \o <<")">>)>>
                     \o template_lines(r.captures, pattern.template),
                  <<SentenceMatch(Slice(words, r.start_idx, Len(words)),
                                  pattern.name, pattern.template)>>)
    ELSE FellThrough

RECURSIVE fallback_scan(_, _, _)
fallback_scan(words, sorted, k) ==
    IF k > Len(sorted) THEN FellThrough
    ELSE or_else(exact_output(words, sorted[k],
                    try_match_pattern(words, parse_pattern(sorted[k].pattern))),
         or_else(substring_output(words, sorted[k],
                    try_match_pattern_substring(words, parse_pattern(sorted[k].pattern))),
                 fallback_scan(words, sorted, k + 1)))

\* Mutant: the sentence is put into the fact as it is.
no_pattern_matched_unescaped(words) ==
    Returned(<<FromLine(words), WarningLine,
               TextLine(<<"prolog_fact('">> \o join_words(words) \o <<"')">>)>>,
             <<>>)

\* "// WARNING: No pattern matched" and prolog_fact('...').
no_pattern_matched(words) ==
    Returned(<<FromLine(words), WarningLine,
               TextLine(<<"prolog_fact('">>
                           \o str_replace(join_words(words), <<"'">>, <<"\\'">>)
                           \o <<"')">>)>>,
             <<>>)

\* parse_prolog from "let sorted_patterns = ..." on.
parse_with(words, sorted) ==
    or_else(IF ~has_conjunctions(words)
            THEN multi_branch(words,
                    find_all_pattern_matches(words, patterns_with_tokens(sorted)))
            ELSE FellThrough,
    or_else(conj_loop(words, sorted, conj_indices(words)),
    or_else(fallback_scan(words, sorted, 1),
            no_pattern_matched(words))))

parse_prolog(patterns, words) ==
    IF words = <<>> THEN Returned(<<>>, <<>>)
    ELSE parse_with(words, get_sorted_patterns(patterns))

\* parse_input on an input of one sentence without a full stop:
\* parse_sentences returns that sentence in lower case.
parse_input(patterns, input) ==
    parse_prolog(patterns, [k \in 1..Len(input) |-> to_lowercase(input[k])])

(***************************************************************************)
(* The pattern store under the editor and the dispatcher under the input   *)
(* box.  The editor is used while the input box is empty, and a text is    *)
(* entered into the empty box: parse_prolog reads the store only when it   *)
(* runs, so every store meets every input this way.                        *)
(***************************************************************************)
\* "'" is a word of its own and in no word entry.
InputWords == {"cat", "fly", "and", "is", "'"}

Init ==
    /\ IdleMatch /\ IdleTemplate /\ IdleMulti /\ IdleQuery
    /\ IdleUnify /\ IdleWords /\ IdleLogger /\ IdleEditor /\ IdleSentences
    /\ db_patterns = <<>>
    /\ input_text = <<>>
    /\ parsed_output = Placeholder
    /\ sorted_patterns = <<>>
    /\ interactive_matches = <<>>

\* show_pattern_form: the "Add Pattern" button.
AddPattern ==
    /\ input_text = <<>>
    /\ Len(db_patterns) < MaxPatterns
    /\ \E c \in 1..Len(PatternCatalog), priority \in Priorities :
          db_patterns' = Append(db_patterns,
             PrologPattern(PatternCatalog[c].name, PatternCatalog[c].pattern,
                           PatternCatalog[c].template, priority, TRUE))
    /\ UNCHANGED <<input_text, parsed_output, sorted_patterns, interactive_matches,
                   NotDispatch>>

\* The save of an edited pattern: name, pattern, template and priority.
SavePatternEdit ==
    /\ input_text = <<>>
    /\ \E idx \in 1..Len(db_patterns), c \in 1..Len(PatternCatalog), priority \in Priorities :
          db_patterns' = [db_patterns EXCEPT ![idx] =
             PrologPattern(PatternCatalog[c].name, PatternCatalog[c].pattern,
                           PatternCatalog[c].template, priority, @.enabled)]
    /\ UNCHANGED <<input_text, parsed_output, sorted_patterns, interactive_matches,
                   NotDispatch>>

\* The "Enable" / "Disable" button.
TogglePattern ==
    /\ input_text = <<>>
    /\ \E idx \in 1..Len(db_patterns) :
          db_patterns' = [db_patterns EXCEPT ![idx].enabled = ~@]
    /\ UNCHANGED <<input_text, parsed_output, sorted_patterns, interactive_matches,
                   NotDispatch>>

\* The remove button.
RemovePattern ==
    /\ input_text = <<>>
    /\ \E idx \in 1..Len(db_patterns) :
          db_patterns' = SubSeq(db_patterns, 1, idx - 1)
                            \o SubSeq(db_patterns, idx + 1, Len(db_patterns))
    /\ UNCHANGED <<input_text, parsed_output, sorted_patterns, interactive_matches,
                   NotDispatch>>

\* update_parsed_output with a text in the input box: parse_input.
ParseInput ==
    /\ input_text = <<>>
    /\ \E text \in SeqsUpTo(InputWords, MaxInputWords) \ {<<>>} :
          /\ input_text' = text
          /\ \E res \in {parse_input(db_patterns, text)} :
                /\ parsed_output' = res.output
                /\ interactive_matches' = res.matches
          /\ sorted_patterns' = get_sorted_patterns(db_patterns)
    /\ UNCHANGED <<db_patterns, NotDispatch>>

\* update_parsed_output with the input box emptied: no parse_prolog call.
ClearInput ==
    /\ input_text # <<>>
    /\ input_text' = <<>>
    /\ parsed_output' = Placeholder
    /\ interactive_matches' = <<>>
    /\ sorted_patterns' = <<>>
    /\ UNCHANGED <<db_patterns, NotDispatch>>

Next ==
    \/ AddPattern
    \/ SavePatternEdit
    \/ TogglePattern
    \/ RemovePattern
    \/ ParseInput
    \/ ClearInput

Spec == Init /\ [][Next]_vars

(***************************************************************************)
(* The query engine (query_engine.rs).  A binding map is a function from   *)
(* variable names to strings; a result line is a sequence of atoms.        *)
(***************************************************************************)
Range(s) == {s[i] : i \in 1..Len(s)}

Fact(predicate, args) == [predicate |-> predicate, args |-> args]

Rule(head, body) == [head |-> head, body |-> body]

\* The names whose first character is upper case, in the order of
\* sort_by_key(|(k, _)| k.to_string()).
VariableNames == <<"X", "Y", "Z">>

\* arg.chars().next().map(|c| c.is_uppercase()).unwrap_or(false)
is_variable(arg) == arg \in Range(VariableNames)

\* HashMap::new()
EmptyBindings == [v \in {} |-> ""]

NoBindings == [ok |-> FALSE, bindings |-> EmptyBindings]

\* unify_from binding a variable anew at each of its occurrences.
RECURSIVE unify_from_rebinding(_, _, _, _)
unify_from_rebinding(query_args, fact_args, i, bindings) ==
    IF i > Len(query_args) THEN [ok |-> TRUE, bindings |-> bindings]
    ELSE IF is_variable(query_args[i])
    THEN unify_from_rebinding(query_args, fact_args, i + 1,
                              (query_args[i] :> fact_args[i]) @@ bindings)
    ELSE IF query_args[i] # fact_args[i] THEN NoBindings
         ELSE unify_from_rebinding(query_args, fact_args, i + 1, bindings)

\* The for loop of unify from the pair i on.
RECURSIVE unify_from(_, _, _, _)
unify_from(query_args, fact_args, i, bindings) ==
    IF i > Len(query_args) THEN [ok |-> TRUE, bindings |-> bindings]
    ELSE IF is_variable(query_args[i])
    THEN IF query_args[i] \in DOMAIN bindings
         THEN IF bindings[query_args[i]] # fact_args[i] THEN NoBindings
              ELSE unify_from(query_args, fact_args, i + 1, bindings)
         ELSE unify_from(query_args, fact_args, i + 1,
                         (query_args[i] :> fact_args[i]) @@ bindings)
    ELSE IF query_args[i] # fact_args[i] THEN NoBindings
         ELSE unify_from(query_args, fact_args, i + 1, bindings)

\* unify: [ok, bindings]; ok = FALSE stands for None.
unify(query_args, fact_args) ==
    IF Len(query_args) # Len(fact_args) THEN NoBindings
    ELSE unify_from(query_args, fact_args, 1, EmptyBindings)

RECURSIVE join_pairs(_, _)
join_pairs(bindings, keys) ==
    IF Len(keys) = 1 THEN <<keys[1], " = ", bindings[keys[1]]>>
    ELSE <<keys[1], " = ", bindings[keys[1]], ", ">> \o join_pairs(bindings, Tail(keys))

format_bindings(bindings) ==
    IF DOMAIN bindings = {} THEN <<"true.">>
    ELSE join_pairs(bindings, SelectSeq(VariableNames, LAMBDA v : v \in DOMAIN bindings))

\* if let Some(bindings) = self.unify(..) { ... }: the bindings of a
\* successful unification, as a list of none or one.
unified(u) == IF u.ok THEN <<u.bindings>> ELSE <<>>

\* The fact read from the argument arg_idx: its predicate first, then its
\* other arguments.
reversed_args(fact, arg_idx) ==
    <<fact.predicate>> \o SubSeq(fact.args, 1, arg_idx - 1)
                       \o SubSeq(fact.args, arg_idx + 1, Len(fact.args))

\* fact_map.get(&predicate): the indices, none when the key is absent.
indices_of(fact_map, predicate) ==
    IF predicate \in DOMAIN fact_map THEN fact_map[predicate] ELSE <<>>

\* Forward direction: the facts of the predicate, in fact_map order.
RECURSIVE forward_matches(_, _, _, _)
forward_matches(facts, indices, args, k) ==
    IF k > Len(indices) THEN <<>>
    ELSE unified(unify(args, facts[indices[k] + 1].args))
            \o forward_matches(facts, indices, args, k + 1)

\* backward_matches looking at the first argument of a fact only.
RECURSIVE backward_matches_first_argument_only(_, _, _, _, _)
backward_matches_first_argument_only(facts, predicate, args, f, arg_idx) ==
    IF f > Len(facts) THEN <<>>
    ELSE (IF Len(facts[f].args) >= 1 /\ facts[f].args[1] = predicate
          THEN unified(unify(args, reversed_args(facts[f], 1)))
          ELSE <<>>)
            \o backward_matches_first_argument_only(facts, predicate, args, f + 1, 1)

\* Backward direction: every fact holding the predicate as an argument.
RECURSIVE backward_matches(_, _, _, _, _)
backward_matches(facts, predicate, args, f, arg_idx) ==
    IF f > Len(facts) THEN <<>>
    ELSE IF arg_idx > Len(facts[f].args)
    THEN backward_matches(facts, predicate, args, f + 1, 1)
    ELSE (IF facts[f].args[arg_idx] = predicate
          THEN unified(unify(args, reversed_args(facts[f], arg_idx)))
          ELSE <<>>)
            \o backward_matches(facts, predicate, args, f, arg_idx + 1)

\* The bindings of the forward and then the backward direction.
fact_matches(facts, fact_map, predicate, args) ==
    forward_matches(facts, indices_of(fact_map, predicate), args, 1)
       \o backward_matches(facts, predicate, args, 1, 1)

\* The arguments of a body goal with the bound variables replaced.
substituted_args(args, existing) ==
    [k \in 1..Len(args) |->
        IF is_variable(args[k]) /\ args[k] \in DOMAIN existing
        THEN existing[args[k]] ELSE args[k]]

\* combined = existing.clone(); combined.extend(bindings)
combine_each(existing, matches) == [k \in 1..Len(matches) |-> matches[k] @@ existing]

\* new_bindings of one body goal over all_bindings.
RECURSIVE body_step(_, _, _, _)
body_step(facts, fact_map, body_fact, all_bindings) ==
    IF all_bindings = <<>> THEN <<>>
    ELSE combine_each(Head(all_bindings),
            fact_matches(facts, fact_map, body_fact.predicate,
                         substituted_args(body_fact.args, Head(all_bindings))))
         \o body_step(facts, fact_map, body_fact, Tail(all_bindings))

RECURSIVE body_fold(_, _, _, _)
body_fold(facts, fact_map, body, all_bindings) ==
    IF body = <<>> THEN all_bindings
    ELSE body_fold(facts, fact_map, Tail(body),
                   body_step(facts, fact_map, Head(body), all_bindings))

format_all(all_bindings) == [k \in 1..Len(all_bindings) |-> format_bindings(all_bindings[k])]

\* evaluate_rule once the head was unified: the results, none for None.
rule_results(facts, fact_map, rule, head) ==
    IF ~head.ok THEN <<>>
    ELSE format_all(body_fold(facts, fact_map, rule.body, <<head.bindings>>))

evaluate_rule(facts, fact_map, rule, query_args) ==
    rule_results(facts, fact_map, rule, unify(query_args, rule.head.args))

\* if seen.insert(result.clone()) { results.push(result); } for each result.
RECURSIVE push_unseen(_, _)
push_unseen(results, new) ==
    IF new = <<>> THEN results
    ELSE push_unseen(IF Head(new) \in Range(results) THEN results
                     ELSE Append(results, Head(new)),
                     Tail(new))

\* for rule in &self.rules of query_simple.
RECURSIVE push_rules(_, _, _, _, _)
push_rules(facts, fact_map, rules, query_fact, results) ==
    IF rules = <<>> THEN results
    ELSE push_rules(facts, fact_map, Tail(rules), query_fact,
            IF Head(rules).head.predicate = query_fact.predicate
            THEN push_unseen(results,
                    evaluate_rule(facts, fact_map, Head(rules), query_fact.args))
            ELSE results)

\* query_simple with the rules taken before the backward direction.
query_simple_rules_before_backward(facts, fact_map, rules, query_fact) ==
    push_unseen(
       push_rules(facts, fact_map, rules, query_fact,
          push_unseen(<<>>,
             format_all(forward_matches(facts, indices_of(fact_map, query_fact.predicate),
                                        query_fact.args, 1)))),
       format_all(backward_matches(facts, query_fact.predicate, query_fact.args, 1, 1)))

query_simple(facts, fact_map, rules, query_fact) ==
    push_rules(facts, fact_map, rules, query_fact,
       push_unseen(<<>>,
          format_all(fact_matches(facts, fact_map, query_fact.predicate, query_fact.args))))

(***************************************************************************)
(* Strings of the query engine.  A string is a sequence of atoms: "(",     *)
(* ")", ",", ".", " ", "//" and "-->" are atoms of their own, any other    *)
(* atom is a run of characters holding none of these.  The predicate and   *)
(* argument fields of the strings of the model hold one atom at most.      *)
(***************************************************************************)
RECURSIVE trim_start(_)
trim_start(s) == IF s # <<>> /\ Head(s) = " " THEN trim_start(Tail(s)) ELSE s

RECURSIVE trim_end_matches(_, _)
trim_end_matches(s, a) ==
    IF s # <<>> /\ s[Len(s)] = a THEN trim_end_matches(Pop(s), a) ELSE s

trim(s) == trim_end_matches(trim_start(s), " ")

\* The result of find and rfind for None.
NotFound == -1

\* str::find: the position (0-based) of the first a in s.
find(s, a) ==
    IF \E i \in 1..Len(s) : s[i] = a
    THEN (CHOOSE i \in 1..Len(s) : s[i] = a /\ \A j \in 1..(i - 1) : s[j] # a) - 1
    ELSE NotFound

\* str::rfind: the position (0-based) of the last a in s.
rfind(s, a) ==
    IF \E i \in 1..Len(s) : s[i] = a
    THEN (CHOOSE i \in 1..Len(s) : s[i] = a /\ \A j \in (i + 1)..Len(s) : s[j] # a) - 1
    ELSE NotFound

\* str::split: the pieces between the occurrences of a.
RECURSIVE split(_, _)
split(s, a) ==
    IF find(s, a) = NotFound THEN <<s>>
    ELSE <<Slice(s, 0, find(s, a))>> \o split(Slice(s, find(s, a) + 1, Len(s)), a)

\* The String of a field.
str_of(piece) == IF piece = <<>> THEN "" ELSE piece[1]

\* .map(|s| s.trim().to_string()).collect()
trimmed_strings(pieces) == [k \in 1..Len(pieces) |-> str_of(trim(pieces[k]))]

\* split_by_top_level_comma from the character i on.
RECURSIVE split_top_from(_, _, _, _, _)
split_top_from(s, i, current, paren_depth, parts) ==
    IF i > Len(s)
    THEN (IF current # <<>> THEN Append(parts, trim(current)) ELSE parts)
    ELSE IF s[i] = "("
    THEN split_top_from(s, i + 1, Append(current, s[i]), paren_depth + 1, parts)
    ELSE IF s[i] = ")"
    THEN split_top_from(s, i + 1, Append(current, s[i]), paren_depth - 1, parts)
    ELSE IF s[i] = "," /\ paren_depth = 0
    THEN split_top_from(s, i + 1, <<>>, paren_depth, Append(parts, trim(current)))
    ELSE split_top_from(s, i + 1, Append(current, s[i]), paren_depth, parts)

split_by_top_level_comma(s) == split_top_from(s, 1, <<>>, 0, <<>>)

\* is_conjunction from the character i on.
RECURSIVE is_conjunction_from(_, _, _)
is_conjunction_from(s, i, paren_depth) ==
    IF i > Len(s) THEN FALSE
    ELSE IF s[i] = "(" THEN is_conjunction_from(s, i + 1, paren_depth + 1)
    ELSE IF s[i] = ")" THEN is_conjunction_from(s, i + 1, paren_depth - 1)
    ELSE IF s[i] = "," /\ paren_depth = 0 THEN TRUE
    ELSE is_conjunction_from(s, i + 1, paren_depth)

\* QueryEngine::is_conjunction
query_is_conjunction(query_str) == is_conjunction_from(query_str, 1, 0)

\* parse_fact returns Some(fact) or None, or panics on the slice
\* line[open_paren + 1..close_paren] when its start lies behind its end.
ParseSome(fact) == [kind |-> "some", fact |-> fact]

ParseNone == [kind |-> "none", fact |-> NoQuery]

ParsePanic == [kind |-> "panic", fact |-> NoQuery]

parse_args(args_str) ==
    IF args_str = <<>> THEN <<>> ELSE trimmed_strings(split(args_str, ","))

parse_fact_between(line, open_paren, close_paren) ==
    IF open_paren = NotFound \/ close_paren = NotFound THEN ParseNone
    ELSE IF open_paren + 1 > close_paren THEN ParsePanic
    ELSE ParseSome(Fact(str_of(trim(Slice(line, 0, open_paren))),
                        parse_args(trim(Slice(line, open_paren + 1, close_paren)))))

parse_fact(line) ==
    parse_fact_between(trim(trim_end_matches(line, ".")),
                       find(trim(trim_end_matches(line, ".")), "("),
                       rfind(trim(trim_end_matches(line, ".")), ")"))

(***************************************************************************)
(* The fact store: add_fact and load_facts_from_output.                    *)
(***************************************************************************)
EmptyStore == [facts |-> <<>>, fact_map |-> EmptyBindings, panicked |-> FALSE]

\* add_fact, and the same lines of load_facts_from_output.
add_fact(store, fact) ==
    [facts |-> Append(store.facts, fact),
     fact_map |-> (fact.predicate :>
                      Append(indices_of(store.fact_map, fact.predicate), Len(store.facts)))
                  @@ store.fact_map,
     panicked |-> store.panicked]

\* if let Some(fact) = self.parse_fact(line) { ... }
load_parsed(store, parsed) ==
    IF parsed.kind = "some" THEN add_fact(store, parsed.fact)
    ELSE IF parsed.kind = "panic" THEN [store EXCEPT !.panicked = TRUE]
    ELSE store

\* The body of the loop for one trimmed line.
load_line(store, line) ==
    IF line = <<>> \/ Head(line) = "//" THEN store
    ELSE load_parsed(store, parse_fact(line))

RECURSIVE load_from(_, _)
load_from(store, lines) ==
    IF lines = <<>> \/ store.panicked THEN store
    ELSE load_from(load_line(store, trim(Head(lines))), Tail(lines))

\* load_facts_from_output without the two clear() calls.
load_facts_from_output_without_clear(prolog_output) ==
    load_from([facts |-> q_facts, fact_map |-> q_fact_map, panicked |-> FALSE],
              prolog_output)

\* load_facts_from_output on the lines of prolog_output.
load_facts_from_output(prolog_output) == load_from(EmptyStore, prolog_output)

(***************************************************************************)
(* query: what a call returns is Ok(results) or Err(error), or the call    *)
(* panics; goal is the parsed goal of query_simple.                        *)
(***************************************************************************)
QueryOk(results, goal) ==
    [panicked |-> FALSE, error |-> NoError, results |-> results, goal |-> goal]

QueryErr(error) ==
    [panicked |-> FALSE, error |-> error, results |-> <<>>, goal |-> NoQuery]

QueryPanic ==
    [panicked |-> TRUE, error |-> NoError, results |-> <<>>, goal |-> NoQuery]

\* Mutant: a rule whose body names the predicate of its head is expanded
\* through itself without bound, which ends the call by a stack overflow.
query_simple_parsed_expanding_rules(facts, fact_map, rules, parsed) ==
    IF parsed.kind = "panic" THEN QueryPanic
    ELSE IF parsed.kind = "none" THEN QueryErr(<<"Invalid query format">>)
    ELSE IF \E k \in 1..Len(rules) :
               /\ rules[k].head.predicate = parsed.fact.predicate
               /\ \E b \in 1..Len(rules[k].body) :
                     rules[k].body[b].predicate = rules[k].head.predicate
    THEN QueryPanic
    ELSE QueryOk(query_simple(facts, fact_map, rules, parsed.fact), parsed.fact)

\* query_simple from the parsed goal on.
query_simple_parsed(facts, fact_map, rules, parsed) ==
    IF parsed.kind = "panic" THEN QueryPanic
    ELSE IF parsed.kind = "none" THEN QueryErr(<<"Invalid query format">>)
    ELSE QueryOk(query_simple(facts, fact_map, rules, parsed.fact), parsed.fact)

\* conjunction_step with the backward direction applied as well.
RECURSIVE conjunction_step_with_swap(_, _, _, _)
conjunction_step_with_swap(facts, fact_map, query_fact, all_results) ==
    IF all_results = <<>> THEN <<>>
    ELSE combine_each(Head(all_results),
            fact_matches(facts, fact_map, query_fact.predicate,
                         substituted_args(query_fact.args, Head(all_results))))
         \o conjunction_step_with_swap(facts, fact_map, query_fact, Tail(all_results))

\* new_results of one sub-goal over all_results: the forward direction only.
RECURSIVE conjunction_step(_, _, _, _)
conjunction_step(facts, fact_map, query_fact, all_results) ==
    IF all_results = <<>> THEN <<>>
    ELSE combine_each(Head(all_results),
            forward_matches(facts, indices_of(fact_map, query_fact.predicate),
                            substituted_args(query_fact.args, Head(all_results)), 1))
         \o conjunction_step(facts, fact_map, query_fact, Tail(all_results))

RECURSIVE conjunction_fold(_, _, _, _)
RECURSIVE conjunction_parsed(_, _, _, _, _)
conjunction_parsed(facts, fact_map, predicates, parsed, all_results) ==
    IF parsed.kind = "panic" THEN QueryPanic
    ELSE IF parsed.kind = "none"
    THEN QueryErr(<<"Invalid predicate: ">> \o Head(predicates))
    ELSE conjunction_fold(facts, fact_map, Tail(predicates),
                          conjunction_step(facts, fact_map, parsed.fact, all_results))

conjunction_fold(facts, fact_map, predicates, all_results) ==
    IF predicates = <<>> THEN QueryOk(format_all(all_results), NoQuery)
    ELSE conjunction_parsed(facts, fact_map, predicates,
                            parse_fact(Head(predicates)), all_results)

query_conjunction(facts, fact_map, query_str) ==
    conjunction_fold(facts, fact_map, split_by_top_level_comma(query_str),
                     <<EmptyBindings>>)

\* A named phrase (struct Pattern).
Pattern(name, components) == [name |-> name, components |-> components]

\* What generate_combinations leaves in results, and its Err value if any.
NoCombinations == [error |-> NoError, results |-> <<>>]

\* generate_combinations; gen_loop is its for loop from the k-th index on.
RECURSIVE generate_combinations(_, _, _, _, _, _)
RECURSIVE gen_loop(_, _, _, _, _, _, _)
\* gen_loop taking the first argument of a fact of any arity.
gen_loop_any_arity(facts, fact_map, components, index, current, k, acc) ==
    IF k > Len(fact_map[components[index + 1]]) \/ acc.error # NoError THEN acc
    ELSE gen_loop(facts, fact_map, components, index, current, k + 1,
            IF Len(facts[fact_map[components[index + 1]][k] + 1].args) >= 1
            THEN generate_combinations(facts, fact_map, components, index + 1,
                    Append(current, facts[fact_map[components[index + 1]][k] + 1].args[1]),
                    acc)
            ELSE acc)

gen_loop(facts, fact_map, components, index, current, k, acc) ==
    IF k > Len(fact_map[components[index + 1]]) \/ acc.error # NoError THEN acc
    ELSE gen_loop(facts, fact_map, components, index, current, k + 1,
            IF Len(facts[fact_map[components[index + 1]][k] + 1].args) = 1
            THEN generate_combinations(facts, fact_map, components, index + 1,
                    Append(current, facts[fact_map[components[index + 1]][k] + 1].args[1]),
                    acc)
            ELSE acc)

generate_combinations(facts, fact_map, components, index, current, acc) ==
    IF index >= Len(components) THEN [acc EXCEPT !.results = Append(@, current)]
    ELSE IF components[index + 1] \in DOMAIN fact_map
    THEN gen_loop(facts, fact_map, components, index, current, 1, acc)
    ELSE [acc EXCEPT !.error = <<"No facts found for component '",
                                 components[index + 1], "'">>]

\* combination.join(", ")
RECURSIVE join(_, _)
join(strings, sep) ==
    IF strings = <<>> THEN <<>>
    ELSE IF Len(strings) = 1 THEN <<strings[1]>>
    ELSE <<strings[1], sep>> \o join(Tail(strings), sep)

\* format!("{} = [{}]", var_name, combination.join(", "))
format_combination(var_name, combination) ==
    <<var_name, " = [">> \o join(combination, ", ") \o <<"]">>

phrase_formatted(var_name, generated) ==
    IF generated.error # NoError THEN QueryErr(generated.error)
    ELSE QueryOk([k \in 1..Len(generated.results) |->
                     format_combination(var_name, generated.results[k])], NoQuery)

\* self.patterns.iter().find(|p| p.name == pattern_name)
find_pattern(patterns, pattern_name) ==
    SelectSeq(patterns, LAMBDA p : p.name = pattern_name)

phrase_of(facts, fact_map, found, pattern_name, var_name) ==
    IF found = <<>> THEN QueryErr(<<"Pattern '", pattern_name, "' not defined">>)
    ELSE phrase_formatted(var_name,
            generate_combinations(facts, fact_map, found[1].components, 0, <<>>,
                                  NoCombinations))

phrase_args(facts, fact_map, patterns, args) ==
    IF Len(args) # 2
    THEN QueryErr(<<"phrase/2 expects 2 arguments: phrase(pattern, Variable)">>)
    ELSE phrase_of(facts, fact_map, find_pattern(patterns, args[1]), args[1], args[2])

phrase_parts(facts, fact_map, patterns, parts) ==
    IF Len(parts) # 2 THEN QueryErr(<<"Invalid phrase query format">>)
    ELSE phrase_args(facts, fact_map, patterns, trimmed_strings(split(parts[2], ",")))

query_phrase(facts, fact_map, patterns, query_str) ==
    phrase_parts(facts, fact_map, patterns,
                 split(trim(trim_end_matches(query_str, ")")), "("))

\* query_str.starts_with("phrase(")
starts_with_phrase(query_str) ==
    Len(query_str) >= 2 /\ query_str[1] = "phrase" /\ query_str[2] = "("

query_trimmed(facts, fact_map, rules, patterns, query_str) ==
    IF starts_with_phrase(query_str)
    THEN query_phrase(facts, fact_map, patterns, query_str)
    ELSE IF query_is_conjunction(query_str)
    THEN query_conjunction(facts, fact_map, query_str)
    ELSE query_simple_parsed(facts, fact_map, rules, parse_fact(query_str))

query(facts, fact_map, rules, patterns, query_str) ==
    query_trimmed(facts, fact_map, rules, patterns,
                  trim(trim_end_matches(query_str, ".")))

\* add_pattern: the phrase pushed, none for Err.
add_pattern_parts(parts) ==
    IF Len(parts) # 2 THEN <<>>
    ELSE <<Pattern(str_of(trim(parts[1])),
                   trimmed_strings(split_by_top_level_comma(parts[2])))>>

add_pattern(pattern_str) == add_pattern_parts(split(pattern_str, "-->"))

(***************************************************************************)
(* The engine under add_fact, load_facts_from_output, add_rule,            *)
(* add_pattern and query.  q_call, q_query, q_results and q_error hold the *)
(* latest query and what it returned for the store as it is, q_output the  *)
(* output of the latest load; any other operation drops them.  A panic     *)
(* ends the run.                                                           *)
(***************************************************************************)
FactUniverse ==
    {Fact("animal", <<"bear">>), Fact("owl", <<"animal">>), Fact("flies", <<"owl">>),
     Fact("flies", <<"bat">>), Fact("eats", <<"owl", "mouse">>)}

RuleCatalog ==
    {Rule(Fact("living", <<"X">>), <<Fact("animal", <<"X">>)>>),
     Rule(Fact("flyer", <<"X">>), <<Fact("animal", <<"X">>), Fact("flies", <<"X">>)>>),
     Rule(Fact("animal", <<"X">>), <<Fact("flies", <<"X">>)>>),
     Rule(Fact("animal", <<"Y">>), <<Fact("animal", <<"Y">>)>>)}

\* name --> components
PhraseCatalog ==
    {<<"s", " ", "-->", " ", "animal", ",", " ", "flies">>,
     <<"t", " ", "-->", " ", "eats", ",", " ", "animal">>,
     <<"u", " ", "-->", " ", "flies", ",", " ", "flies">>}

\* predicate(arg) and predicate(arg, arg) as query strings.
Goal1(predicate, a) == <<predicate, "(", a, ")">>

Goal2(predicate, a, b) == <<predicate, "(", a, ",", " ", b, ")">>

Goals ==
    {Fact("living", <<"bear">>), Fact("living", <<"Y">>), Fact("living", <<"X">>),
     Fact("flyer", <<"Y">>), Fact("flyer", <<"bear">>), Fact("animal", <<"X">>),
     Fact("bear", <<"X">>), Fact("mouse", <<"X", "Y">>)}

\* The goals as query strings, with and without the final full stop, and two
\* strings that are no goals.
SimpleQueries ==
    {Goal1(g.predicate, g.args[1]) : g \in {h \in Goals : Len(h.args) = 1}}
       \cup {Append(Goal2(g.predicate, g.args[1], g.args[2]), ".") :
                g \in {h \in Goals : Len(h.args) = 2}}
       \cup {<<"animal">>, <<")", "animal", "(">>}

ConjunctionQueries ==
    {Goal1("animal", "X") \o <<",", " ">> \o Goal1("flies", "X"),
     Goal1("animal", "X") \o <<",", " ">> \o Goal1("animal", "Y"),
     Goal1("flies", "X") \o <<",", " ">> \o Goal2("eats", "X", "Y"),
     Goal1("animal", "bear") \o <<",", " ">> \o Goal1("flies", "X") \o <<".">>,
     Goal1("animal", "X") \o <<",", " ", "flies">>}

PhraseQueries ==
    {Goal2("phrase", "s", "X"), Goal2("phrase", "t", "X"),
     Append(Goal2("phrase", "u", "Y"), "."), Goal1("phrase", "s")}

\* The lines a parse output is made of.
OutputLines ==
    {<<"animal", "(", "bear", ")", ".">>,
     <<"flies", "(", "owl", ")", ".">>,
     <<"//", " ", "FROM: owl">>,
     <<" ">>,
     <<"animal">>,
     <<")", "animal", "(">>}

InitQuery ==
    /\ IdleMatch /\ IdleTemplate /\ IdleMulti /\ IdleDispatch
    /\ IdleUnify /\ IdleWords /\ IdleLogger /\ IdleEditor /\ IdleSentences
    /\ q_facts = <<>>
    /\ q_fact_map = EmptyBindings
    /\ q_rules = <<>>
    /\ q_query = NoQuery
    /\ q_results = <<>>
    /\ q_patterns = <<>>
    /\ q_call = NoCall
    /\ q_error = NoError
    /\ q_output = NoOutput
    /\ q_panicked = FALSE

\* No query is the latest operation.
DropCall ==
    /\ q_call' = NoCall
    /\ q_query' = NoQuery
    /\ q_results' = <<>>
    /\ q_error' = NoError

\* add_fact
AddFact ==
    /\ ~q_panicked
    /\ Len(q_facts) < MaxFacts
    /\ \E fact \in FactUniverse :
          /\ q_fact_map' = (fact.predicate :>
                               Append(indices_of(q_fact_map, fact.predicate), Len(q_facts)))
                              @@ q_fact_map
          /\ q_facts' = Append(q_facts, fact)
    /\ DropCall
    /\ q_output' = NoOutput
    /\ UNCHANGED <<q_rules, q_patterns, q_panicked, NotQuery>>

\* load_facts_from_output
LoadFacts ==
    /\ ~q_panicked
    /\ \E prolog_output \in SeqsUpTo(OutputLines, MaxOutputLines) :
       \E store \in {load_facts_from_output(prolog_output)} :
          /\ q_facts' = store.facts
          /\ q_fact_map' = store.fact_map
          /\ q_panicked' = store.panicked
          /\ q_output' = [loaded |-> TRUE, lines |-> prolog_output]
    /\ DropCall
    /\ UNCHANGED <<q_rules, q_patterns, NotQuery>>

\* add_rule, from the push of the parsed rule on.
AddRule ==
    /\ ~q_panicked
    /\ Len(q_rules) < MaxRules
    /\ \E rule \in RuleCatalog : q_rules' = Append(q_rules, rule)
    /\ DropCall
    /\ q_output' = NoOutput
    /\ UNCHANGED <<q_facts, q_fact_map, q_patterns, q_panicked, NotQuery>>

\* add_pattern
AddPhrase ==
    /\ ~q_panicked
    /\ Len(q_patterns) < MaxPhrases
    /\ \E pattern_str \in PhraseCatalog : q_patterns' = q_patterns \o add_pattern(pattern_str)
    /\ DropCall
    /\ q_output' = NoOutput
    /\ UNCHANGED <<q_facts, q_fact_map, q_rules, q_panicked, NotQuery>>

\* query(query_str): what the call returns.
Returns(query_str) ==
    \E returned \in {query(q_facts, q_fact_map, q_rules, q_patterns, query_str)} :
       /\ q_call' = query_str
       /\ q_query' = returned.goal
       /\ q_results' = returned.results
       /\ q_error' = returned.error
       /\ q_panicked' = returned.panicked
       /\ q_output' = NoOutput
       /\ UNCHANGED <<q_facts, q_fact_map, q_rules, q_patterns, NotQuery>>

\* query with a simple goal: query_simple.
QuerySimple == ~q_panicked /\ \E query_str \in SimpleQueries : Returns(query_str)

\* query with several goals: query_conjunction.
QueryConjunction == ~q_panicked /\ \E query_str \in ConjunctionQueries : Returns(query_str)

\* query with phrase/2: query_phrase.
QueryPhrase == ~q_panicked /\ \E query_str \in PhraseQueries : Returns(query_str)

NextQuery ==
    \/ AddFact
    \/ LoadFacts
    \/ AddRule
    \/ AddPhrase
    \/ QuerySimple
    \/ QueryConjunction
    \/ QueryPhrase

SpecQuery == InitQuery /\ [][NextQuery]_vars

(***************************************************************************)
(* unify applied to bounded argument lists.                                *)
(***************************************************************************)
QueryArgUniverse == {"X", "Y", "bear", "owl"}

\* "bEAR" differs from "bear" by case only.
FactArgUniverse == {"bear", "owl", "bEAR"}

InitUnify ==
    /\ IdleMatch /\ IdleTemplate /\ IdleMulti /\ IdleDispatch /\ IdleQuery
    /\ IdleWords /\ IdleLogger /\ IdleEditor /\ IdleSentences
    /\ u_query_args \in SeqsUpTo(QueryArgUniverse, MaxArgs)
    /\ u_fact_args \in SeqsUpTo(FactArgUniverse, MaxArgs)
    /\ u_op = "none"
    /\ u_res = NoBindings

Unify ==
    /\ u_op = "none"
    /\ u_res' = unify(u_query_args, u_fact_args)
    /\ u_op' = "unified"
    /\ UNCHANGED <<u_query_args, u_fact_args, NotUnify>>

NextUnify == Unify

SpecUnify == InitUnify /\ [][NextUnify]_vars

(***************************************************************************)
(* The word store (database/database.rs, database/words.rs) under the      *)
(* word editor (database_editor.rs).                                       *)
(***************************************************************************)
WordEntry(lemma, word_type, forms) ==
    [lemma |-> lemma, word_type |-> word_type, forms |-> forms]

EmptyIndex == [form_index |-> EmptyBindings, form_value |-> EmptyBindings]

\* The three inserts of rebuild_index for one entry; a later insert under a
\* key replaces the earlier value.
RECURSIVE insert_forms(_, _, _)
insert_forms(form_index, forms, lemma) ==
    IF forms = <<>> THEN form_index
    ELSE insert_forms((Head(forms) :> lemma) @@ form_index, Tail(forms), lemma)

index_entry(index, entry) ==
    [form_index |-> insert_forms((entry.lemma :> entry.lemma) @@ index.form_index,
                                 entry.forms, entry.lemma),
     form_value |-> (entry.lemma :> entry) @@ index.form_value]

RECURSIVE index_from(_, _)
index_from(index, words) ==
    IF words = <<>> THEN index
    ELSE index_from(index_entry(index, Head(words)), Tail(words))

\* rebuild_index: both maps cleared and filled from the words in order.
rebuild_index(words) == index_from(EmptyIndex, words)

\* get_word_entry: [word, found, entry]; found = FALSE stands for None.
get_word_entry(form_index, form_value, word) ==
    IF word \in DOMAIN form_index /\ form_index[word] \in DOMAIN form_value
    THEN [word |-> word, found |-> TRUE, entry |-> form_value[form_index[word]]]
    ELSE [word |-> word, found |-> FALSE]

\* Vec::remove(idx)
remove_at(s, idx) == SubSeq(s, 1, idx) \o SubSeq(s, idx + 2, Len(s))

\* What the word form of the editor can add.
WordCatalog ==
    {WordEntry("fly", "Noun", <<"flies">>),
     WordEntry("fly", "Verb", <<"flies", "flew">>),
     WordEntry("saw", "Noun", <<"saws">>),
     WordEntry("see", "Verb", <<"saw">>)}

LookupWords == {"fly", "flies", "flew", "saw", "saws", "see", "cat"}

InitWords ==
    /\ IdleMatch /\ IdleTemplate /\ IdleMulti /\ IdleDispatch /\ IdleQuery
    /\ IdleUnify /\ IdleLogger /\ IdleEditor /\ IdleSentences
    /\ w_words = <<>>
    /\ w_form_index = EmptyBindings
    /\ w_form_value = EmptyBindings
    /\ w_lookup = NoLookup

\* Add Word: push the entry, rebuild_index.
AddWord ==
    /\ Len(w_words) < MaxWordEntries
    /\ \E entry \in WordCatalog :
       \E index \in {rebuild_index(Append(w_words, entry))} :
          /\ w_words' = Append(w_words, entry)
          /\ w_form_index' = index.form_index
          /\ w_form_value' = index.form_value
    /\ w_lookup' = NoLookup
    /\ UNCHANGED NotWords

\* Remove: what lines 349-352 of show_word_list do to the Database once they
\* run: remove the entry, rebuild_index.
RemoveWord ==
    /\ \E idx \in 0..(Len(w_words) - 1) :
       \E index \in {rebuild_index(remove_at(w_words, idx))} :
          /\ w_words' = remove_at(w_words, idx)
          /\ w_form_index' = index.form_index
          /\ w_form_value' = index.form_value
    /\ w_lookup' = NoLookup
    /\ UNCHANGED NotWords

\* get_word_entry
LookUpWord ==
    /\ \E word \in LookupWords :
          w_lookup' = get_word_entry(w_form_index, w_form_value, word)
    /\ UNCHANGED <<w_words, w_form_index, w_form_value, NotWords>>

NextWords == AddWord \/ RemoveWord \/ LookUpWord

SpecWords == InitWords /\ [][NextWords]_vars

(***************************************************************************)
(* The database editor and its background save (database_editor.rs,        *)
(* database/database.rs): the UI thread and the save thread share the      *)
(* Database behind an RwLock.  w_words, w_form_index and w_form_value are  *)
(* the shared Database; a step that needs a lock it cannot get is not      *)
(* enabled.                                                                *)
(***************************************************************************)
MaxEditorWords == 2

\* What the word form adds in this specification: two entries of one lemma.
EditorCatalog ==
    {WordEntry("fly", "Noun", <<"flies">>),
     WordEntry("fly", "Verb", <<"flies", "flew">>)}

EditorLookups == {"fly", "flew"}

\* DATABASE_JSON_PATH, DATABASE_BIN_PATH
DatabaseFiles == {"json", "bin"}

Absent == [kind |-> "absent"]

\* serde_json::to_string_pretty / bincode::serialize of the Database: the
\* words in order; form_index and form_value are skipped.
Encoded(format, words) == [kind |-> "complete", format |-> format, words |-> words]

\* A file that was truncated and holds a proper prefix of the data.
Partial(format) == [kind |-> "partial", format |-> format]

\* How one std::fs::write ends: "ok", "create_failed" (the file could not
\* be opened and is untouched), "write_failed" (the file was opened, which
\* truncates it, and write_all failed).
WriteOutcomes == {"ok", "create_failed", "write_failed"}

fs_write(content, format, words, how) ==
    CASE how = "ok" -> Encoded(format, words)
      [] how = "create_failed" -> content
      [] how = "write_failed" -> Partial(format)

\* Database::save: [result, content], the content being that of the file
\* afterwards.
save(content, format, words, how) ==
    [result |-> IF how = "ok" THEN "Ok" ELSE "Err",
     content |-> fs_write(content, format, words, how)]

\* Database::new(DATABASE_PATH) has loaded or written the binary file; the
\* JSON file does not exist yet.
InitEditor ==
    /\ IdleMatch /\ IdleTemplate /\ IdleMulti /\ IdleDispatch /\ IdleQuery
    /\ IdleUnify /\ IdleLogger /\ IdleSentences
    /\ w_words = <<>>
    /\ w_form_index = EmptyBindings
    /\ w_form_value = EmptyBindings
    /\ w_lookup = NoLookup
    /\ e_lock = NoLock
    /\ e_ui = [pc |-> "idle"]
    /\ e_saver = [pc |-> "idle"]
    /\ e_disk = [file \in DatabaseFiles |->
                    IF file = "bin" THEN Encoded("bin", <<>>) ELSE Absent]
    /\ e_channel = <<>>
    /\ e_editor = [is_saving |-> FALSE, status_message |-> ""]

\* The process runs: the UI thread has not panicked.
Running == e_ui.pc # "panicked"

\* show_word_form, Add Word: database.write()
AddWordLock ==
    /\ e_ui.pc = "idle"
    /\ Len(w_words) < MaxEditorWords
    /\ e_lock = NoLock
    /\ \E entry \in EditorCatalog :
          e_ui' = [pc |-> "add_locked", entry |-> entry]
    /\ e_lock' = [e_lock EXCEPT !.writer = TRUE]
    /\ UNCHANGED <<wvars, e_saver, e_disk, e_channel, e_editor, NotEditor>>

\* An Add Word that drops the write guard right after the push and rebuilds
\* the index unlocked.
AddWordPushAndUnlock ==
    /\ e_ui.pc = "add_locked"
    /\ w_words' = Append(w_words, e_ui.entry)
    /\ e_ui' = [pc |-> "add_pushed", entry |-> e_ui.entry]
    /\ e_lock' = [e_lock EXCEPT !.writer = FALSE]
    /\ UNCHANGED <<w_form_index, w_form_value, w_lookup, e_saver,
                   e_disk, e_channel, e_editor, NotEditor>>

\* write_database.words.push(entry)
AddWordPush ==
    /\ e_ui.pc = "add_locked"
    /\ w_words' = Append(w_words, e_ui.entry)
    /\ e_ui' = [pc |-> "add_pushed", entry |-> e_ui.entry]
    /\ UNCHANGED <<w_form_index, w_form_value, w_lookup, e_lock, e_saver,
                   e_disk, e_channel, e_editor, NotEditor>>

\* rebuild_index: form_index.clear(), form_value.clear()
RebuildClear ==
    /\ e_ui.pc = "add_pushed"
    /\ w_form_index' = EmptyIndex.form_index
    /\ w_form_value' = EmptyIndex.form_value
    /\ e_ui' = [pc |-> "rebuilding", entry |-> e_ui.entry, k |-> 0]
    /\ UNCHANGED <<w_words, w_lookup, e_lock, e_saver, e_disk, e_channel,
                   e_editor, NotEditor>>

\* rebuild_index: the inserts of one pass of the loop over words
RebuildInsert ==
    /\ e_ui.pc = "rebuilding"
    /\ e_ui.k < Len(w_words)
    /\ \E index \in {index_entry([form_index |-> w_form_index,
                                  form_value |-> w_form_value],
                                 w_words[e_ui.k + 1])} :
          /\ w_form_index' = index.form_index
          /\ w_form_value' = index.form_value
    /\ e_ui' = [e_ui EXCEPT !.k = @ + 1]
    /\ UNCHANGED <<w_words, w_lookup, e_lock, e_saver, e_disk, e_channel,
                   e_editor, NotEditor>>

\* The status message is set and the write guard dropped.
AddWordUnlock ==
    /\ e_ui.pc = "rebuilding"
    /\ e_ui.k = Len(w_words)
    /\ e_lock' = [e_lock EXCEPT !.writer = FALSE]
    /\ e_editor' = [e_editor EXCEPT !.status_message = "added"]
    /\ e_ui' = [pc |-> "idle"]
    /\ UNCHANGED <<wvars, e_saver, e_disk, e_channel, NotEditor>>

\* show_word_list: database.read(), held while the list is drawn
ListWordsBegin ==
    /\ e_ui.pc = "idle"
    /\ ~e_lock.writer
    /\ e_lock' = [e_lock EXCEPT !.readers = @ \cup {"ui"}]
    /\ e_ui' = [pc |-> "listing"]
    /\ UNCHANGED <<wvars, e_saver, e_disk, e_channel, e_editor, NotEditor>>

\* No remove button was clicked: the read guard is dropped.
ListWordsEnd ==
    /\ e_ui.pc = "listing"
    /\ e_lock' = [e_lock EXCEPT !.readers = @ \ {"ui"}]
    /\ e_ui' = [pc |-> "idle"]
    /\ UNCHANGED <<wvars, e_saver, e_disk, e_channel, e_editor, NotEditor>>

\* A remove button was clicked: database.write() while this thread still
\* holds read_database.  RwLock::write then blocks for ever or panics; a
\* panic of the UI thread unwinds the read guard and ends the process.
RemoveRequestsWrite ==
    /\ e_ui.pc = "listing"
    /\ w_words # <<>>
    /\ \/ /\ e_ui' = [pc |-> "blocked"]
          /\ UNCHANGED e_lock
       \/ /\ e_ui' = [pc |-> "panicked"]
          /\ e_lock' = [e_lock EXCEPT !.readers = @ \ {"ui"}]
    /\ UNCHANGED <<wvars, e_saver, e_disk, e_channel, e_editor, NotEditor>>

\* parse_prolog: app.database.read(), held for the sentence
MatchBegin ==
    /\ e_ui.pc = "idle"
    /\ ~e_lock.writer
    /\ e_lock' = [e_lock EXCEPT !.readers = @ \cup {"ui"}]
    /\ e_ui' = [pc |-> "matching"]
    /\ UNCHANGED <<wvars, e_saver, e_disk, e_channel, e_editor, NotEditor>>

\* matches_token: get_word_entry of a word of the sentence
MatchLookUp ==
    /\ e_ui.pc = "matching"
    /\ \E word \in EditorLookups :
          w_lookup' = get_word_entry(w_form_index, w_form_value, word)
    /\ UNCHANGED <<w_words, w_form_index, w_form_value, evars, NotEditor>>

\* parse_prolog returns: the read guard is dropped.
MatchEnd ==
    /\ e_ui.pc = "matching"
    /\ e_lock' = [e_lock EXCEPT !.readers = @ \ {"ui"}]
    /\ e_ui' = [pc |-> "idle"]
    /\ w_lookup' = NoLookup
    /\ UNCHANGED <<w_words, w_form_index, w_form_value, e_saver, e_disk,
                   e_channel, e_editor, NotEditor>>

\* show, Save Database clicked: is_saving set, the message cleared, the
\* save thread spawned.
SaveClicked ==
    /\ e_ui.pc = "idle"
    /\ ~e_editor.is_saving
    /\ e_editor' = [is_saving |-> TRUE, status_message |-> ""]
    /\ e_saver' = [pc |-> "spawned"]
    /\ UNCHANGED <<wvars, e_lock, e_ui, e_disk, e_channel, NotEditor>>

\* save thread: db.read()
SaverLock ==
    /\ Running
    /\ e_saver.pc = "spawned"
    /\ ~e_lock.writer
    /\ e_lock' = [e_lock EXCEPT !.readers = @ \cup {"saver"}]
    /\ e_saver' = [pc |-> "locked", before |-> e_disk]
    /\ UNCHANGED <<wvars, e_ui, e_disk, e_channel, e_editor, NotEditor>>

\* save thread: json_result = db_guard.save(DATABASE_JSON_PATH)
SaverSaveJson ==
    /\ Running
    /\ e_saver.pc = "locked"
    /\ \E how \in WriteOutcomes :
       \E saved \in {save(e_disk["json"], "json", w_words, how)} :
          /\ e_disk' = [e_disk EXCEPT !["json"] = saved.content]
          /\ e_saver' = [pc |-> "json_saved", before |-> e_saver.before,
                         json_result |-> saved.result]
    /\ UNCHANGED <<wvars, e_lock, e_ui, e_channel, e_editor, NotEditor>>

\* save thread: bin_result = db_guard.save(DATABASE_BIN_PATH)
SaverSaveBin ==
    /\ Running
    /\ e_saver.pc = "json_saved"
    /\ \E how \in WriteOutcomes :
       \E saved \in {save(e_disk["bin"], "bin", w_words, how)} :
          /\ e_disk' = [e_disk EXCEPT !["bin"] = saved.content]
          /\ e_saver' = [pc |-> "bin_saved", before |-> e_saver.before,
                         json_result |-> e_saver.json_result,
                         bin_result |-> saved.result]
    /\ UNCHANGED <<wvars, e_lock, e_ui, e_channel, e_editor, NotEditor>>

\* The result sent by the save thread: Ok when both saves are.
save_result(json_result, bin_result) ==
    IF json_result = "Ok" /\ bin_result = "Ok" THEN "Ok" ELSE "Err"

\* save thread: sender.send(SaveComplete(result)), db_guard dropped
SaverSend ==
    /\ Running
    /\ e_saver.pc = "bin_saved"
    /\ e_channel' = Append(e_channel,
                           save_result(e_saver.json_result, e_saver.bin_result))
    /\ e_lock' = [e_lock EXCEPT !.readers = @ \ {"saver"}]
    /\ e_saver' = [pc |-> "idle"]
    /\ UNCHANGED <<wvars, e_ui, e_disk, e_editor, NotEditor>>

\* show: receiver.try_recv() returned a message.
ReceiveResult ==
    /\ e_ui.pc = "idle"
    /\ e_channel # <<>>
    /\ e_editor' = [is_saving |-> FALSE,
                    status_message |-> IF Head(e_channel) = "Ok"
                                       THEN "saved" ELSE "error saving"]
    /\ e_channel' = Tail(e_channel)
    /\ UNCHANGED <<wvars, e_lock, e_ui, e_saver, e_disk, NotEditor>>

NextEditor ==
    \/ AddWordLock \/ AddWordPush \/ RebuildClear \/ RebuildInsert
    \/ AddWordUnlock
    \/ ListWordsBegin \/ ListWordsEnd \/ RemoveRequestsWrite
    \/ MatchBegin \/ MatchLookUp \/ MatchEnd
    \/ SaveClicked \/ SaverLock \/ SaverSaveJson \/ SaverSaveBin \/ SaverSend
    \/ ReceiveResult

SpecEditor == InitEditor /\ [][NextEditor]_vars

(***************************************************************************)
(* parse_sentences (parser/parser.rs).  The input is a sequence of         *)
(* characters, a sentence a sequence of characters.                        *)
(***************************************************************************)
MaxChars == 5

\* The characters of the inputs: full stop, space, tab, line feed, carriage
\* return, a lowercase and an uppercase letter.
Chars == {".", " ", "\t", "\n", "\r", "a", "B"}

\* char::is_whitespace
is_whitespace(ch) == ch \in {" ", "\t", "\n", "\r"}

\* char::is_uppercase
is_uppercase(ch) == ch = "B"

\* str::to_lowercase, character by character
char_to_lowercase(ch) == IF ch = "B" THEN "b" ELSE ch

lowercased(str) == [k \in 1..Len(str) |-> char_to_lowercase(str[k])]

\* str::trim: leading and trailing whitespace removed.
RECURSIVE str_trim_start(_)
str_trim_start(str) ==
    IF str # <<>> /\ is_whitespace(Head(str)) THEN str_trim_start(Tail(str))
    ELSE str

RECURSIVE str_trim_end(_)
str_trim_end(str) ==
    IF str # <<>> /\ is_whitespace(str[Len(str)]) THEN str_trim_end(Pop(str))
    ELSE str

str_trim(str) == str_trim_end(str_trim_start(str))

\* while j < chars.len() && chars[j].is_whitespace() { j += 1 }
RECURSIVE skip_whitespace(_, _)
skip_whitespace(chars, j) ==
    IF j < Len(chars) /\ is_whitespace(chars[j + 1])
    THEN skip_whitespace(chars, j + 1)
    ELSE j

uppercase_at(chars, j) == j < Len(chars) /\ is_uppercase(chars[j + 1])

\* A sentence end that takes any whitespace character after the full stop.
is_sentence_end_any_whitespace(chars, i) ==
    IF i + 1 >= Len(chars) THEN TRUE
    ELSE CASE chars[i + 2] \in {"\n", "\r"} -> TRUE
           [] is_whitespace(chars[i + 2]) /\ chars[i + 2] \notin {"\n", "\r"} ->
                  uppercase_at(chars, skip_whitespace(chars, i + 1))
           [] OTHER -> FALSE

\* is_sentence_end for the full stop at index i (from 0): the match on
\* next_char.
is_sentence_end(chars, i) ==
    IF i + 1 >= Len(chars) THEN TRUE
    ELSE CASE chars[i + 2] \in {"\n", "\r"} -> TRUE
           [] chars[i + 2] = " " ->
                  uppercase_at(chars, skip_whitespace(chars, i + 1))
           [] OTHER -> FALSE

\* trimmed = current_sentence.trim(); pushed lowercased unless empty
push_trimmed(sentences, trimmed) ==
    IF trimmed = <<>> THEN sentences
    ELSE Append(sentences, lowercased(trimmed))

\* The loop over chars from index i, then the push of the tail.
RECURSIVE scan_chars(_, _, _, _)
scan_chars(chars, i, current_sentence, sentences) ==
    IF i >= Len(chars) THEN push_trimmed(sentences, str_trim(current_sentence))
    ELSE IF chars[i + 1] = "." /\ is_sentence_end(chars, i)
    THEN scan_chars(chars, i + 1, <<>>,
                    push_trimmed(sentences,
                                 str_trim(Append(current_sentence, chars[i + 1]))))
    ELSE scan_chars(chars, i + 1, Append(current_sentence, chars[i + 1]),
                    sentences)

parse_sentences(input) == scan_chars(input, 0, <<>>, <<>>)

InitSentences ==
    /\ IdleMatch /\ IdleTemplate /\ IdleMulti /\ IdleDispatch /\ IdleQuery
    /\ IdleUnify /\ IdleWords /\ IdleLogger /\ IdleEditor
    /\ s_input \in SeqsUpTo(Chars, MaxChars)
    /\ s_op = "idle"
    /\ s_sentences = <<>>

ParseSentences ==
    /\ s_op = "idle"
    /\ s_sentences' = parse_sentences(s_input)
    /\ s_op' = "parsed"
    /\ UNCHANGED <<s_input, NotSentences>>

NextSentences == ParseSentences

SpecSentences == InitSentences /\ [][NextSentences]_vars

(***************************************************************************)
(* The logger (logger.rs).  The log file is the sequence of the lines      *)
(* appended to it; every append succeeds.                                  *)
(***************************************************************************)
\* data: None
NoData == [some |-> FALSE, data |-> ""]

SomeData(data) == [some |-> TRUE, data |-> data]

has_been_logged(logged_entries, category, data) ==
    /\ data.some
    /\ category \in DOMAIN logged_entries
    /\ data.data \in logged_entries[category]

mark_as_logged(logged_entries, category, data) ==
    IF ~data.some THEN logged_entries
    ELSE (category :> ((IF category \in DOMAIN logged_entries
                        THEN logged_entries[category] ELSE {}) \cup {data.data}))
            @@ logged_entries

LogEntry(level, category, message, data) ==
    [level |-> level, category |-> category, message |-> message, data |-> data]

\* log: [logged_entries, log] after the call.
log(logged_entries, lines, level, category, message, data) ==
    IF has_been_logged(logged_entries, category, data)
    THEN [logged_entries |-> logged_entries, log |-> lines]
    ELSE [logged_entries |-> mark_as_logged(logged_entries, category, data),
          log |-> Append(lines, LogEntry(level, category, message, data))]

log_unparsed_sentence(logged_entries, lines, sentence) ==
    log(logged_entries, lines, "WARN", "unparsed_sentence", "Unable to parse sentence",
        SomeData(sentence))

\* The message is "In sentence: '<context>'", kept as the context.
log_unknown_word(logged_entries, lines, word, context) ==
    log(logged_entries, lines, "WARN", "unknown_word", context, SomeData(word))

log_info(logged_entries, lines, message) ==
    log(logged_entries, lines, "INFO", "general", message, NoData)

log_error(logged_entries, lines, message, details) ==
    log(logged_entries, lines, "ERROR", "error", message, details)

LogSentences == {"john likes pizza", "owl"}

LogWords == {"john", "pizza"}

LogMessages == {"started", "saved"}

LogDetails == {NoData, SomeData("disk full")}

InitLogger ==
    /\ IdleMatch /\ IdleTemplate /\ IdleMulti /\ IdleDispatch /\ IdleQuery
    /\ IdleUnify /\ IdleWords /\ IdleEditor /\ IdleSentences
    /\ l_logged_entries = EmptyBindings
    /\ l_log = <<>>

Logged(after) ==
    /\ l_logged_entries' = after.logged_entries
    /\ l_log' = after.log
    /\ UNCHANGED NotLogger

LogUnparsedSentence ==
    /\ Len(l_log) < MaxLogLines
    /\ \E sentence \in LogSentences :
          Logged(log_unparsed_sentence(l_logged_entries, l_log, sentence))

LogUnknownWord ==
    /\ Len(l_log) < MaxLogLines
    /\ \E word \in LogWords : \E context \in LogSentences :
          Logged(log_unknown_word(l_logged_entries, l_log, word, context))

LogInfo ==
    /\ Len(l_log) < MaxLogLines
    /\ \E message \in LogMessages : Logged(log_info(l_logged_entries, l_log, message))

LogError ==
    /\ Len(l_log) < MaxLogLines
    /\ \E details \in LogDetails :
          Logged(log_error(l_logged_entries, l_log, "save failed", details))

NextLogger == LogUnparsedSentence \/ LogUnknownWord \/ LogInfo \/ LogError

SpecLogger == InitLogger /\ [][NextLogger]_vars

(***************************************************************************)
(* Reference semantics of token programs, used to state the matcher's      *)
(* contract.                                                               *)
(***************************************************************************)
\* One word matches a token: Literal by case-insensitive equality, TypeMatch
\* by a lexicon entry of a listed part of speech (or by absence when Noun is
\* listed), Wildcard always; a wrapper matches what its inner token matches.
RECURSIVE WordMatches(_, _)
WordMatches(word, token) ==
    CASE token.kind = "Literal" -> to_lowercase(word) = to_lowercase(token.lit)
      [] token.kind = "TypeMatch" ->
            LET pos == {LexiconWords[i].word_type :
                          i \in {j \in 1..Len(LexiconWords) :
                                   \/ LexiconWords[j].lemma = word
                                   \/ word \in {LexiconWords[j].forms[k] :
                                                  k \in 1..Len(LexiconWords[j].forms)}}}
            IN  IF pos = {} THEN "Noun" \in token.types ELSE pos \cap token.types # {}
      [] token.kind = "Wildcard" -> TRUE
      [] OTHER -> WordMatches(word, token.inner)

\* The numbers of words one occurrence of the token may consume at position wi.
Consumes(words, wi, token) ==
    CASE token.kind = "Optional" ->
            {0} \cup {n \in {1} : wi < Len(words) /\ WordMatches(words[wi + 1], token.inner)}
      [] token.kind = "Greedy" ->
            {n \in 1..(Len(words) - wi) :
                \A k \in (wi + 1)..(wi + n) : WordMatches(words[k], token.inner)}
      [] OTHER -> {n \in {1} : wi < Len(words) /\ WordMatches(words[wi + 1], token)}

\* The word positions at which some decomposition of words[wi..] by the
\* tokens from pi on can end with the program exhausted.
RECURSIVE EndsOfRuns(_, _, _, _)
EndsOfRuns(words, wi, tokens, pi) ==
    IF pi >= Len(tokens) THEN {wi}
    ELSE UNION {EndsOfRuns(words, wi + n, tokens, pi + 1) :
                  n \in Consumes(words, wi, tokens[pi + 1])}

Admits(words, tokens) == Len(words) \in EndsOfRuns(words, 0, tokens, 0)

\* The captures of the accepting path the depth-first search finds first
\* (taken before skipped, longer greedy runs before shorter): one entry per
\* TypeMatch, per taken Optional(TypeMatch) and per Greedy on that path.
RECURSIVE PathCaptures(_, _, _, _, _)
RECURSIVE PathCapturesGreedy(_, _, _, _, _, _)
PathCaptures(words, wi, tokens, pi, exact) ==
    IF pi >= Len(tokens)
    THEN [ok |-> (~exact \/ wi = Len(words)), end |-> wi, caps |-> <<>>]
    ELSE IF wi >= Len(words)
    THEN [ok |-> \A k \in (pi + 1)..Len(tokens) : tokens[k].kind = "Optional",
          end |-> wi, caps |-> <<>>]
    ELSE
      LET token == tokens[pi + 1]
          word == words[wi + 1]
          fail == [ok |-> FALSE, end |-> wi, caps |-> <<>>]
      IN  CASE token.kind = "Optional" ->
                 LET taken == IF WordMatches(word, token.inner)
                              THEN PathCaptures(words, wi + 1, tokens, pi + 1, exact)
                              ELSE fail
                 IN  IF taken.ok
                     THEN [taken EXCEPT !.caps =
                             (IF token.inner.kind = "TypeMatch" THEN <<word>> ELSE <<>>) \o @]
                     ELSE PathCaptures(words, wi, tokens, pi + 1, exact)
            [] token.kind = "Greedy" ->
                 PathCapturesGreedy(words, wi, tokens, pi, exact, Len(words))
            [] OTHER ->
                 LET rest == IF WordMatches(word, token)
                             THEN PathCaptures(words, wi + 1, tokens, pi + 1, exact)
                             ELSE fail
                 IN  IF rest.ok /\ token.kind = "TypeMatch"
                     THEN [rest EXCEPT !.caps = <<word>> \o @]
                     ELSE rest

PathCapturesGreedy(words, wi, tokens, pi, exact, to) ==
    IF to <= wi THEN [ok |-> FALSE, end |-> wi, caps |-> <<>>]
    ELSE LET rest == IF to - wi \in Consumes(words, wi, tokens[pi + 1])
                     THEN PathCaptures(words, to, tokens, pi + 1, exact)
                     ELSE [ok |-> FALSE, end |-> wi, caps |-> <<>>]
         IN  IF rest.ok
             THEN [rest EXCEPT !.caps = <<formatted_capture(Slice(words, wi, to))>> \o @]
             ELSE PathCapturesGreedy(words, wi, tokens, pi, exact, to - 1)

(***************************************************************************)
(* Claims about the matcher (specification SpecMatch).                     *)
(***************************************************************************)
\* C1: every successful match of try_match_pattern or try_match_at_position
\* returns exactly the captures of its accepting path, in program order: one
\* per TypeMatch, taken Optional(TypeMatch) and Greedy token, none for a
\* skipped optional and none left over from an abandoned branch.
C1_CapturesAreThoseOfAcceptingPath ==
    /\ (m_op = "exact" /\ m_res.ok) =>
          m_res.captures = PathCaptures(m_words, 0, m_tokens, 0, TRUE).caps
    /\ (m_op = "at" /\ m_res.ok) =>
          m_res.captures =
             PathCaptures(Slice(m_words, m_res.start_idx, Len(m_words)), 0,
                          m_tokens, 0, FALSE).caps

C3_ExactIffAtReturnsLen ==
    m_op = "exact" =>
       (m_res.ok <=> LET r == try_match_at_position(m_words, 0, m_tokens)
                     IN  r.ok /\ r.end_idx = Len(m_words))


C3_Witness ==
    /\ m_op = "exact" /\ m_res.ok /\ Len(m_words) >= 2
    /\ m_tokens # <<>> /\ m_tokens[1].kind = "Greedy"
    /\ Len(m_tokens) > 1

\* The start indices k whose suffix words[k..] matches exactly, among 0..hi.
ExactSuffixStarts(words, tokens, hi) ==
    {k \in 0..hi : try_match_pattern(Slice(words, k, Len(words)), tokens).ok}

Min(S) == CHOOSE x \in S : \A y \in S : x <= y

\* C4 as stated: match_substring succeeds exactly when some suffix words[k..]
\* with 0 <= k <= len(words) matches exactly, and returns the smallest such k
\* (on the non-empty word lists parse_prolog passes).
C4_SubstringIffSomeSuffixUpToLen ==
    (m_op = "substring" /\ m_words # <<>>) =>
       LET K == ExactSuffixStarts(m_words, m_tokens, Len(m_words))
       IN  /\ m_res.ok <=> K # {}
           /\ m_res.ok => m_res.start_idx = Min(K)

\* C4 amended: match_substring succeeds exactly when some non-empty suffix
\* words[k..], 0 <= k < len(words), matches exactly, and returns the smallest
\* such k.
C4_SubstringIffSomeNonEmptySuffix ==
    m_op = "substring" =>
       LET K == ExactSuffixStarts(m_words, m_tokens, Len(m_words) - 1)
       IN  /\ m_res.ok <=> K # {}
           /\ m_res.ok => m_res.start_idx = Min(K)

C4_Witness ==
    /\ m_op = "substring" /\ m_res.ok /\ m_res.start_idx = 1
    /\ Cardinality(ExactSuffixStarts(m_words, m_tokens, Len(m_words) - 1)) >= 2


(***************************************************************************)
(* Claims about template instantiation (specification SpecTemplate).       *)
(***************************************************************************)
IsDigit(a) == \E d \in 1..10 : DigitAtoms[d] = a

DigitValue(a) == (CHOOSE d \in 1..10 : DigitAtoms[d] = a) - 1

\* The length of the run of digits at the head of str.
RECURSIVE DigitRun(_)
DigitRun(str) ==
    IF str # <<>> /\ IsDigit(Head(str)) THEN 1 + DigitRun(Tail(str)) ELSE 0

RECURSIVE NumberOf(_, _)
NumberOf(digits, acc) ==
    IF digits = <<>> THEN acc
    ELSE NumberOf(Tail(digits), 10 * acc + DigitValue(Head(digits)))

\* Simultaneous substitution: each "$" followed by its longest run of digits
\* N (a decimal numeral without a leading zero) is replaced by the Nth capture
\* when there is one; nothing put in is scanned again.
RECURSIVE Substitute(_, _)
Substitute(line, captures) ==
    IF line = <<>> THEN <<>>
    ELSE IF Head(line) = "$" /\ DigitRun(Tail(line)) > 0
    THEN LET run == DigitRun(Tail(line))
             n == NumberOf(SubSeq(line, 2, run + 1), 0)
             rest == Substitute(SubSeq(line, run + 2, Len(line)), captures)
         IN  IF line[2] # "0" /\ n \in 1..Len(captures) THEN captures[n] \o rest
             ELSE SubSeq(line, 1, run + 1) \o rest
    ELSE <<Head(line)>> \o Substitute(Tail(line), captures)

NonBlankLines(template) ==
    SelectSeq(str_lines(template, <<>>), LAMBDA line : ~is_blank(line))

\* C5: in every non-empty template line apply_template replaces each $N, N
\* the longest run of digits after "$", by the Nth capture, all at once: $10
\* is the tenth capture and a capture holding $K text is not substituted again.
C5_SimultaneousLongestRun ==
    t_op = "applied" =>
       \A k \in 1..Len(NonBlankLines(t_template)) :
          /\ k <= Len(t_result)
          /\ t_result[k] = Substitute(NonBlankLines(t_template)[k], t_captures)

\* C5, the $10 case alone: captures free of "$" and a line holding $10.
C5_TenthCapture ==
    (t_op = "applied" /\ t_captures = TenCaptures /\ t_template = <<"$", "1", "0">>) =>
       t_result = <<<<"kit">>>>


(***************************************************************************)
(* Claims about the multi-match loop (specification SpecMulti).            *)
(***************************************************************************)
Covers(m, i) == m.start_idx <= i /\ i < m.end_idx

\* used_positions as it was before the k-th match was recorded.
UsedBefore(k) ==
    [i \in 1..Len(f_words) |-> \E j \in 1..(k - 1) : Covers(f_matches[j], i - 1)]

\* C6: the recorded spans are half-open intervals inside 0..len(words), no
\* two of them share a position, and used_positions marks exactly their
\* union after every iteration.
C6_SpansDisjointAndUsedIsTheirUnion ==
    f_pc \in {"loop", "done"} =>
       /\ \A k \in 1..Len(f_matches) :
             /\ 0 <= f_matches[k].start_idx
             /\ f_matches[k].start_idx < f_matches[k].end_idx
             /\ f_matches[k].end_idx <= Len(f_words)
       /\ \A j, k \in 1..Len(f_matches) :
             j # k => \A i \in 0..(Len(f_words) - 1) :
                         ~(Covers(f_matches[j], i) /\ Covers(f_matches[k], i))
       /\ \A i \in 1..Len(f_words) :
             f_used[i] <=> \E k \in 1..Len(f_matches) : Covers(f_matches[k], i - 1)

C6_Witness ==
    /\ f_pc = "done" /\ Len(f_matches) >= 2
    /\ \E i \in 1..Len(f_words) : ~f_used[i]

\* The candidates of a round: (pattern, start index) pairs, the start unused,
\* whose match_at succeeds on a span free of used positions.
Candidates(used) ==
    {c \in (1..Len(f_patterns)) \X (0..(Len(f_words) - 1)) :
        /\ ~used[c[2] + 1]
        /\ LET r == try_match_at_position(f_words, c[2], f_patterns[c[1]].tokens)
           IN  r.ok /\ \A i \in r.start_idx..(r.end_idx - 1) : ~used[i + 1]}

SpanLen(c) ==
    LET r == try_match_at_position(f_words, c[2], f_patterns[c[1]].tokens)
    IN  r.end_idx - r.start_idx

\* The pattern a recorded match came from (names are distinct in f_patterns).
PatternIndex(m) == CHOOSE p \in 1..Len(f_patterns) : f_patterns[p].name = m.pattern_name

\* C7: the match recorded in a round is a candidate of greatest span length;
\* among those of that length it is the one of the earliest pattern, and
\* among those the one of the earliest start index.
C7_LongestThenPatternThenStart ==
    \A k \in 1..Len(f_matches) :
       LET m == f_matches[k]
           mine == <<PatternIndex(m), m.start_idx>>
           cands == Candidates(UsedBefore(k))
       IN  /\ mine \in cands
           /\ m.end_idx - m.start_idx = SpanLen(mine)
           /\ \A c \in cands :
                 /\ SpanLen(c) <= SpanLen(mine)
                 /\ SpanLen(c) = SpanLen(mine) =>
                       \/ mine[1] < c[1]
                       \/ mine[1] = c[1] /\ mine[2] <= c[2]

C7_Witness ==
    /\ Len(f_matches) >= 2
    /\ LET mine == <<PatternIndex(f_matches[2]), f_matches[2].start_idx>>
       IN  \E c, d \in Candidates(UsedBefore(2)) :
              /\ SpanLen(c) = SpanLen(mine) /\ c[1] > mine[1]
              /\ SpanLen(d) = SpanLen(mine) /\ d[1] = mine[1] /\ d[2] > mine[2]

(***************************************************************************)
(* Claims about the pattern store and the dispatcher (specification Spec). *)
(***************************************************************************)
\* The words parse_prolog worked on for the input in the box.
ParsedWords == [k \in 1..Len(input_text) |-> to_lowercase(input_text[k])]

EnabledIndices(patterns) == {i \in 1..Len(patterns) : patterns[i].enabled}

\* The place of pattern i in the dispatcher's order: behind the enabled
\* patterns of greater priority and those of its priority declared earlier.
PlaceOf(patterns, i) ==
    1 + Cardinality({j \in EnabledIndices(patterns) :
                        \/ patterns[j].priority > patterns[i].priority
                        \/ patterns[j].priority = patterns[i].priority /\ j < i})

EnabledByPriority(patterns) ==
    [k \in 1..Cardinality(EnabledIndices(patterns)) |->
        patterns[CHOOSE i \in EnabledIndices(patterns) : PlaceOf(patterns, i) = k]]

PatternNamesIn(output) ==
    {output[k].name : k \in {j \in 1..Len(output) : output[j].kind = "PATTERN"}}

OutputNamesAlone(p) ==
    PatternNamesIn(parse_prolog(<<[p EXCEPT !.enabled = TRUE]>>, ParsedWords).output)

FirstAdmitting(part) ==
    LET order == EnabledByPriority(db_patterns)
        hits == {k \in 1..Len(order) : Admits(part, parse_pattern(order[k].pattern))}
    IN  IF hits = {} THEN 0 ELSE CHOOSE k \in hits : \A j \in hits : k <= j

\* The header of a part with the given note and its instantiated template.
PartLines(part, note) ==
    LET p == EnabledByPriority(db_patterns)[FirstAdmitting(part)]
    IN  <<PatternLine(p.name, note)>>
           \o template_lines(try_match_pattern(part, parse_pattern(p.pattern)).captures,
                             p.template)

\* The output of a subject-sharing expansion at the conjunction conj_idx,
\* the second header carrying note.
SubjectSharingOutput(words, conj_idx, note) ==
    LET first == Slice(words, 0, conj_idx)
        second == Slice(words, 0, subject_end_idx(words, 0))
                     \o Slice(words, conj_idx + 1, Len(words))
    IN  <<FromLine(words)>> \o PartLines(first, <<"(conjunction expansion)">>)
           \o PartLines(second, note)

\* The conjunction positions at which the subject-sharing expansion applies:
\* 0 < subject_end <= C and both parts are matched exactly by some enabled
\* pattern.
SubjectSharingAt(words) ==
    {c \in {conj_indices(words)[k] : k \in 1..Len(conj_indices(words))} :
        /\ 0 < subject_end_idx(words, 0)
        /\ subject_end_idx(words, 0) <= c
        /\ FirstAdmitting(Slice(words, 0, c)) # 0
        /\ FirstAdmitting(Slice(words, 0, subject_end_idx(words, 0))
                             \o Slice(words, c + 1, Len(words))) # 0}

\* C9: at a conjunction where the subject-sharing expansion applies,
\* parse_prolog emits the FROM line and, for first and second, a PATTERN
\* line annotated (conjunction expansion) followed by the instantiated
\* template of the highest-priority pattern matching the part, and nothing
\* else.
C9_BothPartsAnnotated ==
    input_text # <<>> =>
       \A c \in SubjectSharingAt(ParsedWords) :
          parsed_output = SubjectSharingOutput(ParsedWords, c, <<"(conjunction expansion)">>)

\* C9 but for the annotation of the second PATTERN line, at the first
\* conjunction position with words on both sides.
C9_SecondHeaderBare ==
    input_text # <<>> =>
       \A c \in SubjectSharingAt(ParsedWords) :
          (c + 1 < Len(ParsedWords) /\ \A b \in SubjectSharingAt(ParsedWords) : c <= b) =>
             parsed_output = SubjectSharingOutput(ParsedWords, c, <<>>)


(***************************************************************************)
(* Claims about the query engine (specification SpecQuery).                *)
(***************************************************************************)
\* The atoms of the store and of the goal.
AtomsOf(fact) == {fact.predicate} \cup {a \in Range(fact.args) : ~is_variable(a)}

QueryAtoms ==
    UNION ({AtomsOf(q_facts[k]) : k \in 1..Len(q_facts)}
           \cup {AtomsOf(q_rules[k].head) : k \in 1..Len(q_rules)}
           \cup {AtomsOf(q_query)})

VariablesOf(args) == {a \in Range(args) : is_variable(a)}

\* args under a substitution of all its variables.
Instance(args, subst) ==
    [k \in 1..Len(args) |-> IF is_variable(args[k]) THEN subst[args[k]] ELSE args[k]]

\* A ground goal matches a stored fact, forward or bidirectionally.
Stored(predicate, args) ==
    \E f \in 1..Len(q_facts) :
       \/ q_facts[f].predicate = predicate /\ q_facts[f].args = args
       \/ \E arg_idx \in 1..Len(q_facts[f].args) :
             /\ q_facts[f].args[arg_idx] = predicate
             /\ reversed_args(q_facts[f], arg_idx) = args

RuleVariables(rule) ==
    VariablesOf(rule.head.args)
       \cup UNION {VariablesOf(rule.body[k].args) : k \in 1..Len(rule.body)}

\* The results the rule owes the goal: one for every binding of the goal's
\* variables to atoms under which, for some binding of the rule's variables,
\* the goal equals the head and every body goal matches a stored fact.
RuleResults(rule, goal) ==
    {format_bindings(beta) :
        beta \in {b \in [VariablesOf(goal.args) -> QueryAtoms] :
                    /\ Len(goal.args) = Len(rule.head.args)
                    /\ \E sigma \in [RuleVariables(rule) -> QueryAtoms] :
                          /\ Instance(goal.args, b) = Instance(rule.head.args, sigma)
                          /\ \A k \in 1..Len(rule.body) :
                                Stored(rule.body[k].predicate,
                                       Instance(rule.body[k].args, sigma))}}

\* What the forward and backward directions give the goal without any rule.
DirectResults(goal) ==
    Range(format_all(fact_matches(q_facts, q_fact_map, goal.predicate, goal.args)))

\* C10: the results of a simple goal are those of the stored facts and, for
\* every rule whose head predicate is the goal's, one result for each binding
\* of the goal's own variables to atoms under which the goal unifies with the
\* head and every body goal matches a stored fact; a rule with an unmatched
\* body goal adds nothing.
C10_RuleResultsBindGoalVariables ==
    q_query # NoQuery =>
       Range(q_results) =
          DirectResults(q_query)
             \cup UNION {RuleResults(q_rules[k], q_query) :
                           k \in {j \in 1..Len(q_rules) :
                                     q_rules[j].head.predicate = q_query.predicate}}

\* C10 for the goals that name their variables as the rule's head does.
C10_SameVariableNames ==
    (q_query # NoQuery
        /\ \A k \in 1..Len(q_rules) :
              q_rules[k].head.predicate = q_query.predicate =>
                 q_rules[k].head.args = q_query.args) =>
       Range(q_results) =
          DirectResults(q_query)
             \cup UNION {RuleResults(q_rules[k], q_query) :
                           k \in {j \in 1..Len(q_rules) :
                                     q_rules[j].head.predicate = q_query.predicate}}

(***************************************************************************)
(* Reference notions for the claims about query.                           *)
(***************************************************************************)
\* The latest query as query reads it, and the kind of goal it holds.
CallTrimmed == trim(trim_end_matches(q_call, "."))

Answered == q_call # NoCall /\ ~q_panicked /\ q_error = NoError

IsPhraseCall == q_call # NoCall /\ ~q_panicked /\ starts_with_phrase(CallTrimmed)

IsConjunctionCall ==
    Answered /\ ~starts_with_phrase(CallTrimmed) /\ query_is_conjunction(CallTrimmed)

IsSimpleCall == Answered /\ q_query # NoQuery

FactIndices == [k \in 1..Len(q_facts) |-> k]

FactAtoms ==
    UNION {Range(q_facts[k].args) \cup {q_facts[k].predicate} : k \in 1..Len(q_facts)}

\* args with its variables replaced is target, and the replacement doing it.
Matches(args, target) ==
    /\ Len(args) = Len(target)
    /\ \E beta \in [VariablesOf(args) -> Range(target)] : Instance(args, beta) = target

BindingOf(args, target) ==
    CHOOSE beta \in [VariablesOf(args) -> Range(target)] : Instance(args, beta) = target

\* The fact f read from its argument i: predicate first, the other arguments
\* in their order.
Swapped(f, i) ==
    [k \in 1..Len(q_facts[f].args) |->
        IF k = 1 THEN q_facts[f].predicate
        ELSE IF k - 1 < i THEN q_facts[f].args[k - 1]
        ELSE q_facts[f].args[k]]

NoTwoEqual(results) ==
    \A i, j \in 1..Len(results) : results[i] = results[j] => i = j

\* results without the repetitions of an earlier element.
FirstOccurrences(results) ==
    LET keep == SelectSeq([k \in 1..Len(results) |-> k],
                          LAMBDA k : \A j \in 1..(k - 1) : results[j] # results[k])
    IN  [m \in 1..Len(keep) |-> results[keep[m]]]

RECURSIVE Flatten(_)
Flatten(seqs) == IF seqs = <<>> THEN <<>> ELSE Head(seqs) \o Flatten(Tail(seqs))

\* The results of the facts under the goal's predicate, in store order.
ForwardList(goal) ==
    LET hit == SelectSeq(FactIndices,
                  LAMBDA f : /\ q_facts[f].predicate = goal.predicate
                             /\ Matches(goal.args, q_facts[f].args))
    IN  [m \in 1..Len(hit) |->
            format_bindings(BindingOf(goal.args, q_facts[hit[m]].args))]

MaxArity == 2

\* The results of bidirectional synthesis, by fact and argument position.
BidirectionalList(goal) ==
    LET places == [k \in 1..(Len(q_facts) * MaxArity) |->
                      <<((k - 1) \div MaxArity) + 1, ((k - 1) % MaxArity) + 1>>]
        hit == SelectSeq(places,
                  LAMBDA p : /\ p[2] <= Len(q_facts[p[1]].args)
                             /\ q_facts[p[1]].args[p[2]] = goal.predicate
                             /\ Matches(goal.args, Swapped(p[1], p[2])))
    IN  [m \in 1..Len(hit) |->
            format_bindings(BindingOf(goal.args, Swapped(hit[m][1], hit[m][2])))]

\* The results of the rules, in declaration order.
RuleList(goal) ==
    Flatten([k \in 1..Len(q_rules) |->
                IF q_rules[k].head.predicate = goal.predicate
                THEN evaluate_rule(q_facts, q_fact_map, q_rules[k], goal.args)
                ELSE <<>>])

\* C11: the result list of a query of any kind holds no two equal strings.
C11_NoTwoEqualResults == Answered => NoTwoEqual(q_results)

\* C11 for simple goals only.
C11_SimpleGoalsOnly == IsSimpleCall => NoTwoEqual(q_results)

\* C12 as stated: the results of a simple goal are those of the facts, then
\* those of the rules, then those of bidirectional synthesis, none repeated.
C12_FactsRulesBidirectional ==
    IsSimpleCall =>
       q_results = FirstOccurrences(ForwardList(q_query) \o RuleList(q_query)
                                       \o BidirectionalList(q_query))

\* C12, amended: the results of a simple goal are those of the facts under the
\* goal's predicate in store order, then those of bidirectional synthesis,
\* then those of the rules in declaration order, none repeated.
C12_FactsBidirectionalRules ==
    IsSimpleCall =>
       q_results = FirstOccurrences(ForwardList(q_query) \o BidirectionalList(q_query)
                                       \o RuleList(q_query))

C12_Witness ==
    /\ IsSimpleCall
    /\ ForwardList(q_query) # <<>>
    /\ BidirectionalList(q_query) # <<>>
    /\ RuleList(q_query) # <<>>
    /\ Len(q_results) = 3

\* The sub-goals of the latest conjunctive query.
ConjunctionGoals ==
    LET parts == split_by_top_level_comma(CallTrimmed)
    IN  [k \in 1..Len(parts) |-> parse_fact(parts[k]).fact]

ConjunctionVariables ==
    UNION {VariablesOf(ConjunctionGoals[k].args) : k \in 1..Len(ConjunctionGoals)}

\* beta makes every sub-goal the stored fact the combination c gives it.
Satisfies(beta, c) ==
    \A k \in 1..Len(ConjunctionGoals) :
       /\ q_facts[c[k]].predicate = ConjunctionGoals[k].predicate
       /\ Len(q_facts[c[k]].args) = Len(ConjunctionGoals[k].args)
       /\ Instance(ConjunctionGoals[k].args, beta) = q_facts[c[k]].args

\* The combinations of stored facts that satisfy all sub-goals.
Combinations ==
    {c \in [1..Len(ConjunctionGoals) -> 1..Len(q_facts)] :
        \E beta \in [ConjunctionVariables -> FactAtoms] : Satisfies(beta, c)}

CombinationLine(c) ==
    format_bindings(CHOOSE beta \in [ConjunctionVariables -> FactAtoms] : Satisfies(beta, c))

C15_SwappedFactsAreTried ==
    IsSimpleCall =>
       \A f \in 1..Len(q_facts) : \A i \in 1..Len(q_facts[f].args) :
          (q_facts[f].args[i] = q_query.predicate /\ Matches(q_query.args, Swapped(f, i)))
             => format_bindings(BindingOf(q_query.args, Swapped(f, i))) \in Range(q_results)

C15_Witness ==
    /\ IsSimpleCall
    /\ q_query = Fact("mouse", <<"X", "Y">>)
    /\ q_results = << <<"X", " = ", "eats", ", ", "Y", " = ", "owl">> >>

\* The arguments of the latest phrase/2 query: the phrase name and the variable.
PhraseParts == split(trim(trim_end_matches(CallTrimmed, ")")), "(")

PhraseArgs == trimmed_strings(split(PhraseParts[2], ","))

IsPhraseQuery == IsPhraseCall /\ Len(PhraseParts) = 2 /\ Len(PhraseArgs) = 2

PhraseDefined == \E k \in 1..Len(q_patterns) : q_patterns[k].name = PhraseArgs[1]

\* The components of the phrase asked for.
PhraseComponents ==
    q_patterns[CHOOSE k \in 1..Len(q_patterns) :
                  /\ q_patterns[k].name = PhraseArgs[1]
                  /\ \A j \in 1..(k - 1) : q_patterns[j].name # PhraseArgs[1]].components

\* The facts under a predicate, and those of them with one argument, in
\* store order.
FactsUnder(c) == SelectSeq(FactIndices, LAMBDA f : q_facts[f].predicate = c)

UnaryFactsUnder(c) ==
    SelectSeq(FactIndices, LAMBDA f : q_facts[f].predicate = c /\ Len(q_facts[f].args) = 1)

RECURSIVE Product(_)
Product(sizes) == IF sizes = <<>> THEN 1 ELSE Head(sizes) * Product(Tail(sizes))

UnarySizes == [i \in 1..Len(PhraseComponents) |-> Len(UnaryFactsUnder(PhraseComponents[i]))]

\* One unary fact per component, as the place of the fact among the unary
\* facts of the component.
FactTuples ==
    {t \in [1..Len(PhraseComponents) -> 1..Len(q_facts)] :
        \A i \in 1..Len(PhraseComponents) : t[i] <= UnarySizes[i]}

\* The number of tuples before t in lexicographic order, by the first i
\* components.
RECURSIVE TuplesBefore(_, _)
TuplesBefore(t, i) ==
    IF i = 0 THEN 0 ELSE TuplesBefore(t, i - 1) * UnarySizes[i] + (t[i] - 1)

TupleLine(t) ==
    <<PhraseArgs[2], " = [">>
       \o join([i \in 1..Len(PhraseComponents) |->
                   q_facts[UnaryFactsUnder(PhraseComponents[i])[t[i]]].args[1]], ", ")
       \o <<"]">>

\* C16 as stated: phrase(p, Var) returns as many combinations as the product
\* of the numbers of facts under its components.
C16_ProductOfAllFacts ==
    (IsPhraseQuery /\ Answered /\ PhraseDefined) =>
       Len(q_results) =
          Product([i \in 1..Len(PhraseComponents) |-> Len(FactsUnder(PhraseComponents[i]))])

\* C16, amended: phrase(p, Var) returns one line Var = [v1, ..., vn] for
\* every choice of one fact with a single argument under each component, in
\* lexicographic order of the fact-index tuples (the first component varies
\* slowest), and no other line.
C16_ProductOfUnaryFacts ==
    (IsPhraseQuery /\ Answered /\ PhraseDefined) =>
       /\ Len(q_results) = Product(UnarySizes)
       /\ \A t \in FactTuples :
             q_results[TuplesBefore(t, Len(PhraseComponents)) + 1] = TupleLine(t)

C16_Witness ==
    /\ IsPhraseQuery /\ Answered /\ PhraseDefined
    /\ PhraseComponents = <<"flies", "flies">>
    /\ Len(q_results) = 4
    /\ q_results[2] # q_results[3]

\* C17: phrase(name, Var) returns the error Pattern 'name' not defined when
\* no phrase has the name, and the error No facts found for component 'c'
\* when a component c of the phrase has no facts, wherever c stands in the
\* component list; it returns no list then.
C17_FailsAsAWhole ==
    IsPhraseQuery =>
       /\ ~PhraseDefined =>
             /\ q_error = <<"Pattern '", PhraseArgs[1], "' not defined">>
             /\ q_results = <<>>
       /\ (PhraseDefined /\ \E i \in 1..Len(PhraseComponents) :
                               FactsUnder(PhraseComponents[i]) = <<>>) =>
             /\ \E i \in 1..Len(PhraseComponents) :
                   /\ FactsUnder(PhraseComponents[i]) = <<>>
                   /\ q_error = <<"No facts found for component '", PhraseComponents[i], "'">>
             /\ q_results = <<>>

\* C17 for the components the generator reaches: an undefined phrase, or a
\* component without facts whose predecessors all have a fact with a single
\* argument, makes the query fail as a whole.
C17_FailsWhenReached ==
    IsPhraseQuery =>
       /\ ~PhraseDefined =>
             /\ q_error = <<"Pattern '", PhraseArgs[1], "' not defined">>
             /\ q_results = <<>>
       /\ (PhraseDefined /\ \E i \in 1..Len(PhraseComponents) :
                               /\ FactsUnder(PhraseComponents[i]) = <<>>
                               /\ \A j \in 1..(i - 1) : UnarySizes[j] > 0) =>
             /\ \E i \in 1..Len(PhraseComponents) :
                   /\ FactsUnder(PhraseComponents[i]) = <<>>
                   /\ q_error = <<"No facts found for component '", PhraseComponents[i], "'">>
             /\ q_results = <<>>

\* The places (0-based) of the facts under a predicate, in increasing order.
PlacesOf(predicate) ==
    [k \in 1..Len(FactsUnder(predicate)) |-> FactsUnder(predicate)[k] - 1]

\* The facts an output holds: its lines that are neither blank nor comments
\* and read as facts, in their order.
FactsOfOutput(lines) ==
    LET kept == SelectSeq(lines,
                   LAMBDA line : /\ trim(line) # <<>>
                                 /\ Head(trim(line)) # "//"
                                 /\ parse_fact(trim(line)).kind = "some")
    IN  [k \in 1..Len(kept) |-> parse_fact(trim(kept[k])).fact]

\* C18: fact_map holds, for every predicate of the store and no other key,
\* the increasing list of the positions of the facts under it, every one a
\* position of the fact list; and right after a load the fact list is that of
\* the output loaded, whatever the store held before.
C18_IndexIsThePositionsByPredicate ==
    ~q_panicked =>
       /\ DOMAIN q_fact_map = {q_facts[k].predicate : k \in 1..Len(q_facts)}
       /\ \A p \in DOMAIN q_fact_map :
             /\ q_fact_map[p] = PlacesOf(p)
             /\ \A k \in 1..Len(q_fact_map[p]) :
                   q_fact_map[p][k] >= 0 /\ q_fact_map[p][k] < Len(q_facts)
       /\ q_output.loaded => q_facts = FactsOfOutput(q_output.lines)

C18_Witness ==
    /\ q_output.loaded
    /\ Len(q_output.lines) = 2
    /\ q_facts = <<Fact("flies", <<"owl">>)>>
    /\ q_fact_map["flies"] = <<0>>

(***************************************************************************)
(* Claims about unify (specification SpecUnify).                           *)
(***************************************************************************)
\* What the claim asks of the two lists for unify to succeed.
Unifiable(query_args, fact_args) ==
    /\ Len(query_args) = Len(fact_args)
    /\ \A i \in 1..Len(query_args) :
          ~is_variable(query_args[i]) => query_args[i] = fact_args[i]
    /\ \A i, j \in 1..Len(query_args) :
          (is_variable(query_args[i]) /\ query_args[i] = query_args[j])
             => fact_args[i] = fact_args[j]

\* C14: unify returns bindings exactly when the lists have equal length,
\* every non-variable query argument equals the fact argument at its position
\* and every variable meets one fact argument at all its occurrences; the
\* keys of the bindings are then the query's variables, and the query
\* arguments with the bindings substituted are the fact arguments.
C14_UnifyBindsExactlyTheVariables ==
    u_op = "unified" =>
       /\ u_res.ok <=> Unifiable(u_query_args, u_fact_args)
       /\ u_res.ok =>
             /\ DOMAIN u_res.bindings = VariablesOf(u_query_args)
             /\ Instance(u_query_args, u_res.bindings) = u_fact_args

C14_Witness ==
    /\ u_op = "unified"
    /\ u_query_args = <<"X", "bear", "X">>
    /\ u_fact_args = <<"owl", "bear", "owl">>
    /\ u_res.ok
    /\ u_res.bindings["X"] = "owl"

(***************************************************************************)
(* Claims about the word store (specification SpecWords).                  *)
(***************************************************************************)
\* The lemma and the forms of an entry.
StringsOf(entry) == {entry.lemma} \cup Range(entry.forms)

\* The entries a lookup under the lemma gives.
EntriesUnder(lemma) ==
    IF lemma \in DOMAIN w_form_value THEN {w_form_value[lemma]} ELSE {}

\* C19: for every entry E of the store and every string F that is E's lemma
\* or one of its forms, the form index resolves F to a lemma and the entries
\* looked up under that lemma include E.
C19_EveryEntryIsFoundByItsForms ==
    \A k \in 1..Len(w_words) : \A form \in StringsOf(w_words[k]) :
       /\ form \in DOMAIN w_form_index
       /\ w_words[k] \in EntriesUnder(w_form_index[form])

\* What the indexes do hold: every lemma and form resolves to the lemma of
\* the last entry holding it, and a lemma gives the last entry of that lemma.
C19_TheLastEntryWins ==
    /\ \A k \in 1..Len(w_words) : \A form \in StringsOf(w_words[k]) :
          /\ form \in DOMAIN w_form_index
          /\ \E j \in k..Len(w_words) :
                /\ form \in StringsOf(w_words[j])
                /\ w_form_index[form] = w_words[j].lemma
                /\ \A i \in (j + 1)..Len(w_words) : form \notin StringsOf(w_words[i])
    /\ \A k \in 1..Len(w_words) :
          /\ w_words[k].lemma \in DOMAIN w_form_value
          /\ \E j \in k..Len(w_words) :
                /\ w_form_value[w_words[k].lemma] = w_words[j]
                /\ \A i \in (j + 1)..Len(w_words) : w_words[i].lemma # w_words[k].lemma

(***************************************************************************)
(* Claims about the logger (specification SpecLogger).                     *)
(***************************************************************************)
\* The payload of a line: its data, or its message when it has no data.
PayloadOf(line) == IF line.data.some THEN line.data.data ELSE line.message

\* C20: the log holds at most one line per (category, payload) pair.
C20_OneLinePerCategoryAndPayload ==
    \A i, j \in 1..Len(l_log) :
       (l_log[i].category = l_log[j].category /\ PayloadOf(l_log[i]) = PayloadOf(l_log[j]))
          => i = j

\* C20 for the calls that pass data: at most one line per (category, data).
C20_OneLinePerCategoryAndData ==
    \A i, j \in 1..Len(l_log) :
       (l_log[i].data.some /\ l_log[j].data.some
           /\ l_log[i].category = l_log[j].category /\ l_log[i].data = l_log[j].data)
          => i = j

(***************************************************************************)
(* Claims about the dispatcher and the warning sink (specification Spec).  *)
(* parse_prolog holds no Logger and calls none: PrologApp has no such      *)
(* field and logger.rs is not in the module tree of app/mod.rs, so the     *)
(* actions of the dispatcher leave the log as it is.                       *)
(***************************************************************************)
\* The sink holds a line of the category with the payload as its data.
SinkHolds(category, payload) ==
    \E i \in 1..Len(l_log) :
       l_log[i].category = category /\ l_log[i].data = SomeData(payload)

NothingMatched == \E k \in 1..Len(parsed_output) : parsed_output[k] = WarningLine

\* The words matches_token looked up and found in no word entry: every
\* pattern of the catalog begins with a TypeMatch, so the first word of the
\* sentence is looked up as soon as one pattern is enabled.
LexiconMisses ==
    {ParsedWords[k] : k \in {j \in 1..Len(ParsedWords) :
        j = 1 /\ sorted_patterns # <<>> /\ get_word_entries(ParsedWords[j]) = <<>>}}

\* C21: after a parse the sink holds (unknown_word, word) for every lexicon
\* miss and (unparsed_sentence, sentence) for a sentence nothing matched.
C21_MissesAndUnparsedReachTheSink ==
    input_text # <<>> =>
       /\ NothingMatched => SinkHolds("unparsed_sentence", join_words(ParsedWords))
       /\ \A w \in LexiconMisses : SinkHolds("unknown_word", w)

\* The string with every single quote escaped.
RECURSIVE Escaped(_)
Escaped(str) ==
    IF str = <<>> THEN <<>>
    ELSE (IF Head(str) = "'" THEN <<"\\'">> ELSE <<Head(str)>>) \o Escaped(Tail(str))

EnabledPrograms ==
    {parse_pattern(db_patterns[i].pattern) : i \in EnabledIndices(db_patterns)}

\* Some enabled pattern matches both parts of a suffix split at conj_idx.
SplitAt(words, conj_idx) ==
    \E split_point \in 0..conj_idx : \E tokens \in EnabledPrograms :
       /\ Admits(Slice(words, 0, conj_idx), tokens)
       /\ Admits(Slice(words, 0, split_point) \o Slice(words, conj_idx + 1, Len(words)),
                 tokens)

\* The multi-match, every conjunction expansion and the exact and substring
\* attempts of every enabled pattern fail for the words.
EveryAttemptFails(words) ==
    /\ \/ has_conjunctions(words)
       \/ find_all_pattern_matches(words,
             patterns_with_tokens(EnabledByPriority(db_patterns))) = <<>>
    /\ \A c \in SubjectSharingAt(words) : c + 1 >= Len(words)
    /\ \A c \in 1..(Len(words) - 2) : is_conjunction(words[c + 1]) => ~SplitAt(words, c)
    /\ \A start_idx \in 0..(Len(words) - 1) : \A tokens \in EnabledPrograms :
          ~Admits(Slice(words, start_idx, Len(words)), tokens)

\* C22: for a sentence every attempt fails on, parse_prolog returns the FROM
\* line, the warning line and prolog_fact('...') of the sentence with its
\* single quotes escaped, and pushes no interactive match.
C22_UnmatchedSentenceGivesTheWarningBlock ==
    (input_text # <<>> /\ EveryAttemptFails(ParsedWords)) =>
       /\ parsed_output =
             <<FromLine(ParsedWords), WarningLine,
               TextLine(<<"prolog_fact('">> \o Escaped(join_words(ParsedWords)) \o <<"')">>)>>
       /\ interactive_matches = <<>>

\* A sentence with a single quote and a conjunction that no pattern of a
\* store with enabled patterns matches.
C22_Witness ==
    /\ input_text # <<>>
    /\ EveryAttemptFails(ParsedWords)
    /\ EnabledIndices(db_patterns) # {}
    /\ \E k \in 1..Len(input_text) : input_text[k] = "'"
    /\ NothingMatched

\* The PATTERN lines of the output carry the note of the multi-match block.
MultiMatchBlock ==
    /\ \E k \in 1..Len(parsed_output) : parsed_output[k].kind = "PATTERN"
    /\ \A k \in 1..Len(parsed_output) :
          parsed_output[k].kind = "PATTERN" =>
             parsed_output[k].note # <<>> /\ parsed_output[k].note[1] = "(words "

\* C30: for a sentence without a conjunction word, an empty multi-match
\* means that no enabled pattern matches the words or a suffix of them, and
\* the output is the multi-match block or the warning, never the block of an
\* exact or substring match.
C30_NoFallbackWithoutConjunction ==
    (input_text # <<>> /\ ~has_conjunctions(ParsedWords)) =>
       /\ find_all_pattern_matches(ParsedWords,
             patterns_with_tokens(EnabledByPriority(db_patterns))) = <<>>
          => \A start_idx \in 0..(Len(ParsedWords) - 1) : \A tokens \in EnabledPrograms :
                ~Admits(Slice(ParsedWords, start_idx, Len(ParsedWords)), tokens)
       /\ MultiMatchBlock \/ NothingMatched
       /\ ~(MultiMatchBlock /\ NothingMatched)

\* A sentence without a conjunction word that the enabled patterns match
\* nowhere, and one they match in two places.
C30_Witness ==
    /\ input_text # <<>>
    /\ ~has_conjunctions(ParsedWords)
    /\ EnabledIndices(db_patterns) # {}
    /\ \/ NothingMatched
       \/ MultiMatchBlock /\ Len(interactive_matches) = 2

(***************************************************************************)
(* Claims about malformed input and rules of the query engine              *)
(* (specification SpecQuery).                                              *)
(***************************************************************************)
\* The line as parse_fact reads it has its last ")" before its first "(".
ReversedParentheses(line) ==
    LET l == trim(trim_end_matches(trim(line), "."))
    IN  /\ find(l, "(") # NotFound
        /\ rfind(l, ")") # NotFound
        /\ rfind(l, ")") < find(l, "(") + 1

\* C23: no call of query or load_facts_from_output aborts, whatever the
\* line: query returns a list or an error value and a load skips the line.
C23_MalformedInputNeverAborts == ~q_panicked

\* A call aborts only on a line with reversed parentheses.
C23_AbortsOnReversedParenthesesOnly ==
    q_panicked =>
       \/ q_call # NoCall /\ ReversedParentheses(q_call)
       \/ q_output.loaded
             /\ \E k \in 1..Len(q_output.lines) : ReversedParentheses(q_output.lines[k])

\* The rules whose body names the predicate of their head.
SelfRecursiveRules ==
    {k \in 1..Len(q_rules) :
        \E b \in 1..Len(q_rules[k].body) :
           q_rules[k].body[b].predicate = q_rules[k].head.predicate}

\* The latest query is a simple goal under the head of a self-recursive rule.
SelfRecursiveCall ==
    /\ q_call # NoCall
    /\ ~starts_with_phrase(CallTrimmed)
    /\ ~query_is_conjunction(CallTrimmed)
    /\ parse_fact(CallTrimmed).kind = "some"
    /\ \E k \in SelfRecursiveRules :
          q_rules[k].head.predicate = parse_fact(CallTrimmed).fact.predicate

\* C28 as stated: a simple goal under the head of a self-recursive rule
\* never returns.
C28_SelfRecursiveRulesLoop == SelfRecursiveCall => ~Answered

\* The bindings of the body goal k of the rule: those of the facts, forward
\* and by bidirectional synthesis, for the body goal as it is written.
BodyBindings(rule, k) ==
    fact_matches(q_facts, q_fact_map, rule.body[k].predicate, rule.body[k].args)

\* The rules whose head has the predicate of the goal.
RulesUnderGoal ==
    {k \in 1..Len(q_rules) : q_rules[k].head.predicate = q_query.predicate}

\* The rule is p(V) :- p(V).
OneGoalOfItself(k) ==
    /\ k \in SelfRecursiveRules
    /\ Len(q_rules[k].body) = 1
    /\ Len(q_rules[k].head.args) = 1
    /\ q_rules[k].head.args = q_rules[k].body[1].args

\* What the rule p(V) :- p(V) yields for the goal: the bindings of its body
\* goal over the facts, each with the goal's variable bound to V.
ExpandedOnce(k) ==
    {format_bindings(BodyBindings(q_rules[k], 1)[m]
                        @@ (q_query.args[1] :> q_rules[k].head.args[1])) :
        m \in 1..Len(BodyBindings(q_rules[k], 1))}

\* C28, amended: a simple goal under the head of a self-recursive rule
\* returns; the body of the rule is matched against the stored facts only,
\* once, so all the rule adds to the results of the facts are the bindings
\* of its body goal over the facts together with the goal's variable bound
\* to the name of the head's variable.
C28_SelfRecursiveRulesAreExpandedOnce ==
    SelfRecursiveCall =>
       /\ Answered
       /\ q_query = parse_fact(CallTrimmed).fact
       /\ (/\ Len(q_query.args) = 1
           /\ is_variable(q_query.args[1])
           /\ \A k \in RulesUnderGoal : OneGoalOfItself(k)) =>
              Range(q_results) =
                 DirectResults(q_query)
                    \cup UNION {ExpandedOnce(k) : k \in RulesUnderGoal}

\* The rule animal(Y) :- animal(Y) over a stored animal fact, asked animal(X).
C28_Witness ==
    /\ SelfRecursiveCall
    /\ Answered
    /\ Len(q_results) >= 2
    /\ \E f \in 1..Len(q_facts) : q_facts[f].predicate = q_query.predicate


(***************************************************************************)
(* Claims about the editor's saves and locking (specification SpecEditor)  *)
(***************************************************************************)
SaveFailed(file) ==
    \/ file = "json" /\ e_saver.pc \in {"json_saved", "bin_saved"}
                     /\ e_saver.json_result = "Err"
    \/ file = "bin" /\ e_saver.pc = "bin_saved" /\ e_saver.bin_result = "Err"

\* C24: a failed save of a database file leaves the previous content of that
\* file on disk.
C24_FailedSaveLeavesTheFileIntact ==
    \A file \in DatabaseFiles :
        SaveFailed(file) => e_disk[file] = e_saver.before[file]

\* C24, the rest of the claim: a save does not change the in-memory
\* database, and a failed save is sent as SaveComplete(Err).
C24_FailedSaveKeepsMemoryAndIsReported ==
    [][/\ (SaverSaveJson \/ SaverSaveBin) =>
              UNCHANGED <<w_words, w_form_index, w_form_value>>
       /\ (SaverSend /\ \E file \in DatabaseFiles : SaveFailed(file)) =>
              e_channel' = <<"Err">>]_vars

IndexConsistent ==
    [form_index |-> w_form_index, form_value |-> w_form_value]
        = rebuild_index(w_words)

MidEdit == e_ui.pc \in {"add_locked", "add_pushed", "rebuilding"}

BothSaved ==
    /\ e_saver.pc = "bin_saved"
    /\ e_saver.json_result = "Ok"
    /\ e_saver.bin_result = "Ok"

\* C25: while a reader holds the lock no edit is under way and the indexes
\* are those of the word list; a look-up of the matcher returns what the
\* rebuilt index holds; the two files written by one save encode the same
\* words, those of the database.
C25_ReadersSeeAConsistentDatabase ==
    /\ e_lock.readers # {} =>
          /\ ~e_lock.writer
          /\ ~MidEdit
          /\ IndexConsistent
    /\ w_lookup # NoLookup =>
          w_lookup = get_word_entry(rebuild_index(w_words).form_index,
                                    rebuild_index(w_words).form_value,
                                    w_lookup.word)
    /\ BothSaved =>
          /\ e_disk["json"] = Encoded("json", w_words)
          /\ e_disk["bin"] = Encoded("bin", w_words)

\* The save thread waits for the lock while the index is half rebuilt.
C25_Witness ==
    /\ e_saver.pc = "spawned"
    /\ e_ui.pc = "rebuilding"
    /\ e_lock.writer
    /\ ~IndexConsistent
    /\ w_form_value # EmptyBindings


(***************************************************************************)
(* Claims about parse_sentences (specification SpecSentences)              *)
(***************************************************************************)
\* The positions q behind position p such that only whitespace lies between
\* p and q and an uppercase letter stands at q.
UppercaseBehindWhitespace(chars, p) ==
    {q \in (p + 2)..Len(chars) :
        /\ is_uppercase(chars[q])
        /\ \A r \in (p + 1)..(q - 1) : is_whitespace(chars[r])}

\* The full stops that end a sentence when any whitespace may follow them.
EndsAnyWhitespace(chars) ==
    {p \in 1..Len(chars) :
        /\ chars[p] = "."
        /\ \/ p = Len(chars)
           \/ chars[p + 1] \in {"\n", "\r"}
           \/ UppercaseBehindWhitespace(chars, p) # {}}

\* The full stops that end a sentence when a space must follow them.
EndsSpace(chars) ==
    {p \in EndsAnyWhitespace(chars) :
        \/ p = Len(chars)
        \/ chars[p + 1] \in {"\n", "\r", " "}}

MinOf(S) == CHOOSE x \in S : \A y \in S : x <= y

\* The sentences of chars cut behind the positions of ends, from position
\* from on: trimmed, the empty ones dropped, lowercased, in input order.
RECURSIVE SentencesCutAt(_, _, _)
SentencesCutAt(chars, ends, from) ==
    IF ends = {} THEN <<>>
    ELSE LET e == MinOf(ends)
             piece == str_trim(SubSeq(chars, from, e))
         IN  (IF piece = <<>> THEN <<>> ELSE <<lowercased(piece)>>)
             \o SentencesCutAt(chars, ends \ {e}, e + 1)

\* C26: the sentences are those cut behind every full stop followed by the
\* end of input, a newline or carriage return, or whitespace of any kind and
\* then an uppercase letter, and the tail.
C26_CutBehindAnyWhitespace ==
    s_op = "parsed" =>
        s_sentences = SentencesCutAt(s_input,
                                     EndsAnyWhitespace(s_input) \cup {Len(s_input)}, 1)

\* C26, amended: the character behind the full stop is a space (further
\* whitespace of any kind is skipped); every sentence is non-empty, trimmed
\* and lowercased.
C26_CutBehindASpace ==
    s_op = "parsed" =>
        /\ s_sentences = SentencesCutAt(s_input,
                                        EndsSpace(s_input) \cup {Len(s_input)}, 1)
        /\ \A k \in 1..Len(s_sentences) :
              /\ s_sentences[k] # <<>>
              /\ ~is_whitespace(s_sentences[k][1])
              /\ ~is_whitespace(s_sentences[k][Len(s_sentences[k])])
              /\ \A c \in 1..Len(s_sentences[k]) : ~is_uppercase(s_sentences[k][c])

\* A full stop, a space, a tab and an uppercase letter: two sentences.
C26_Witness ==
    /\ s_op = "parsed"
    /\ s_input = <<"B", ".", " ", "\t", "B">>
    /\ s_sentences = << <<"b", ".">>, <<"b">> >>


(***************************************************************************)
(* Claims about the Greedy token (specification SpecMatch)                 *)
(***************************************************************************)
\* r: the length of the maximal run of words from position wi that match
\* the inner token.
MaximalRun(words, wi, inner) ==
    CHOOSE r \in 0..(Len(words) - wi) :
        /\ \A k \in (wi + 1)..(wi + r) : WordMatches(words[k], inner)
        /\ wi + r < Len(words) => ~WordMatches(words[wi + r + 1], inner)

\* The run lengths in 1..r behind which the rest of the program matches the
\* rest of the words exactly.
GreedyTakes(words, tokens) ==
    {n \in 1..MaximalRun(words, 0, tokens[1].inner) :
        Len(words) \in EndsOfRuns(words, n, tokens, 1)}

MaxOf(S) == CHOOSE x \in S : \A y \in S : x >= y

GreedyFirst == m_op = "exact" /\ m_tokens # <<>> /\ m_tokens[1].kind = "Greedy"

\* A plain TypeMatch token stands somewhere behind the first token.
TypeMatchBehind ==
    \E k \in 2..Len(m_tokens) : m_tokens[k].kind = "TypeMatch"

\* What the Greedy token at position 0 is to contribute and the rest of the
\* program after it, for the largest run length n that lets the rest match.
GreedyCaptures(words, tokens) ==
    <<formatted_capture(Slice(words, 0, MaxOf(GreedyTakes(words, tokens))))>>
    \o PathCaptures(words, MaxOf(GreedyTakes(words, tokens)), tokens, 1, TRUE).caps

\* C27: a Greedy token reached at position 0 fails when no word matches its
\* inner token or no run length in 1..r lets the rest match; otherwise it
\* takes the largest such n and contributes the single capture of those n
\* words joined by '_' and lowercased, ahead of the captures of the rest.
C27_GreedyTakesTheLongestAndCapturesOnce ==
    GreedyFirst =>
        /\ m_res.ok <=> GreedyTakes(m_words, m_tokens) # {}
        /\ m_res.ok => m_res.captures = GreedyCaptures(m_words, m_tokens)

\* C27 where no plain TypeMatch token follows the Greedy token.
C27_HoldsWithoutTypeMatchBehind ==
    (GreedyFirst /\ ~TypeMatchBehind) =>
        /\ m_res.ok <=> GreedyTakes(m_words, m_tokens) # {}
        /\ m_res.ok => m_res.captures = GreedyCaptures(m_words, m_tokens)

\* C27, the run taken: the first capture of the result names the n words
\* whenever the longest run itself lets the rest match.
C27_LongestRunTaken ==
    (GreedyFirst /\ m_res.ok
       /\ MaximalRun(m_words, 0, m_tokens[1].inner) \in GreedyTakes(m_words, m_tokens)) =>
        m_res.captures = GreedyCaptures(m_words, m_tokens)


(***************************************************************************)
(* Claims about the end of the multi-match loop (specification             *)
(* SpecMultiFair)                                                          *)
(***************************************************************************)
\* The k-th recorded match covers a position that was unused before it.
MarksNewPosition(k) ==
    \E i \in 0..(Len(f_words) - 1) :
        Covers(f_matches[k], i) /\ ~UsedBefore(k)[i + 1]

\* The candidates left: a pattern and an unused start that is no conjunction,
\* where match_at returns a span of at least one word free of used positions.
CandidatesLeft ==
    {c \in Candidates(f_used) :
        ~is_conjunction(f_words[c[2] + 1]) /\ SpanLen(c) >= 1}

RoundsBounded ==
    /\ Len(f_matches) <= Len(f_words)
    /\ \A k \in 1..Len(f_matches) :
          /\ f_matches[k].end_idx - f_matches[k].start_idx >= 1
          /\ MarksNewPosition(k)
          /\ f_patterns[PatternIndex(f_matches[k])].tokens # <<>>
    /\ f_pc = "done" => CandidatesLeft = {}

====
